---- MODULE Spec2Model ----
(***************************************************************************)
(* Findings-to-issues reconciliation of automation/process-codeql-results.js *)
(*                                                                         *)
(* Strings the code concatenates or searches (rule ids, file paths, keys)  *)
(* are sequences of one-character strings, so that concatenation and       *)
(* substring search are computed as the code computes them.  An issue body *)
(* is the sequence of the pieces of text the code later searches: the two  *)
(* table cells, the "Lines n" headings and whatever the free text of a     *)
(* message carries (a backtick-quoted word, a "line n" reference).         *)
(***************************************************************************)
EXTENDS Integers, Sequences, FiniteSets, TLC

VARIABLES
    issues,      \* the tracker: issue number -> [title, body, labels, state, comments]
    pc,          \* "idle" | "groups" | "sweep": where main() is
    run,         \* number of runs started
    cfg,         \* config of the current run (environment of the process)
    findings,    \* parseSARIFResults' result for the current run
    groups,      \* groupedFindings
    gi,          \* index of the next grouped finding of the for loop
    processedCount,
    currentVulnerabilities,
    results,     \* the results record of processFindings / the summary
    openIssues,  \* the sweep's listing (a snapshot of the tracker)
    si,          \* index of the next issue of the sweep's loop
    closedCount,
    exitCode,    \* exit status of the last finished run
    failures,    \* tracker calls and prompt requests that failed so far (all runs)
    userLabels,  \* issue numbers a user put `false-positive` on
    promptHashes, \* the hash manifest loaded from prompt-hashes.json
    promptCache, \* the in-memory prompt cache of the process
    hist,        \* bookkeeping about the current and the previous run
    app,         \* the Express API: limiter stores, requests in flight, responses
    runners      \* two concurrent runs: position, lookup result, action of each

vars == <<issues, pc, run, cfg, findings, groups, gi, processedCount,
          currentVulnerabilities, results, openIssues, si, closedCount,
          exitCode, failures, userLabels, promptHashes, promptCache, hist, app,
          runners>>

(***************************************************************************)
(* Bounds of the model                                                     *)
(***************************************************************************)
MaxRuns == 2
MaxReportLen == 2
MaxCap == 2
MaxFailures == 1
MaxUserLabels == 1
MaxGroupInput == 3
MaxFilterLen == 1
MaxRequests == 2
MaxBodyOccurrences == 2
MaxOverLimit == 1
MaxEndpointsUsed == 2
MaxInFlight == 6
\* Open labelled issues in the tracker besides the candidate: one page and one more
MaxOpenItems == 101
\* Issues in the tracker the sweep is tried on, besides the one of the run
MaxSweepItems == 2
\* Runs in a report and results in a run, for the parser
MaxRawRuns == 2
MaxRawResults == 2
\* Groups in the report of the run whose summary counts are added up
MaxCountLen == 3
\* Issues in the tracker, and findings in the report, of the run whose writes are framed
MaxFrameItems == 2

(***************************************************************************)
(* Strings                                                                 *)
(***************************************************************************)
Colon == <<":">>

Contains(s, sub) ==
    \E i \in 0..(Len(s) - Len(sub)) : SubSeq(s, i + 1, i + Len(sub)) = sub

DigitChar(d) ==
    CASE d = 0 -> "0" [] d = 1 -> "1" [] d = 2 -> "2" [] d = 3 -> "3"
      [] d = 4 -> "4" [] d = 5 -> "5" [] d = 6 -> "6" [] d = 7 -> "7"
      [] d = 8 -> "8" [] OTHER -> "9"

RECURSIVE NumToStr(_)
NumToStr(n) ==
    IF n < 10 THEN <<DigitChar(n)>>
    ELSE NumToStr(n \div 10) \o <<DigitChar(n % 10)>>

RECURSIVE Flatten(_)
Flatten(ss) == IF ss = <<>> THEN <<>> ELSE Head(ss) \o Flatten(Tail(ss))

Range(s) == {s[i] : i \in 1..Len(s)}

(***************************************************************************)
(* Inputs: rule ids, file paths, levels, free text                         *)
(***************************************************************************)
R1 == <<"x">>
R2 == <<"y">>
RX == <<"z">>
RD == <<"w">>
FA == <<"a">>
FT == <<"t", "a">>

\* A piece of body text: k is its kind, s the quoted word, n a line number.
Tok(k, s, n) == [k |-> k, s |-> s, n |-> n]

PlainText == <<>>
\* A code snippet or message as long as the body may get
LongText == <<Tok("text", <<>>, 65000)>>
\* A message that reads `... on line 9 ...`
MentionsLine == <<Tok("lineref", <<>>, 9)>>
MentionsR2 == <<Tok("tick", R2, 0)>>

(***************************************************************************)
(* Static tables of prompt-mappings.json                                   *)
(***************************************************************************)
NoCategory == ""

\* level -> severity; a level missing here gets the parser's default.
severity_mapping == [l \in {"error"} |-> "critical"]

\* rule id -> category key; RX is a rule no category is mapped to, RD a rule
\* mapped to a key owasp_categories does not hold.
codeql_to_owasp ==
    (R1 :> "A03_injection") @@ (R2 :> "A01_access") @@ (RD :> "A99_retired")

owasp_categories == {"A03_injection", "A01_access"}

label_mapping == ("critical" :> "security/critical") @@ ("high" :> "security/high")

\* owasp_categories[key].prompt_file
prompt_file == ("A03_injection" :> <<"p">>) @@ ("A01_access" :> <<"q">>)

(***************************************************************************)
(* parseSARIFResults: the record pushed for one result                     *)
(***************************************************************************)
ParsedFinding(ruleId, filePath, startLine, endLine, level, message) ==
    [ruleId |-> ruleId, filePath |-> filePath,
     startLine |-> startLine, endLine |-> endLine, level |-> level,
     severity |-> IF level \in DOMAIN severity_mapping
                  THEN severity_mapping[level] ELSE "medium",
     message |-> message]

FindingPool ==
    { ParsedFinding(R1, FA, 1, 1, "error", PlainText),
      ParsedFinding(R1, FA, 2, 3, "error", PlainText),
      ParsedFinding(R1, FA, 1, 1, "error", MentionsR2),
      ParsedFinding(R2, FA, 1, 1, "error", PlainText),
      ParsedFinding(R1, FT, 1, 1, "none", PlainText),
      ParsedFinding(RX, FA, 1, 1, "error", PlainText) }

\* Sequences of distinct elements of S, of length at most n.
RECURSIVE SeqsUpTo(_, _)
SeqsUpTo(S, n) ==
    IF n = 0 THEN {<<>>}
    ELSE LET shorter == SeqsUpTo(S, n - 1)
         IN  shorter \cup
             {Append(q, x) : <<q, x>> \in
                 {<<q, x>> \in shorter \X S : Len(q) = n - 1 /\ x \notin Range(q)}}

Reports == SeqsUpTo(FindingPool, MaxReportLen)

\* The environment of a run: a base configuration and the configurations that
\* differ from it in one setting.
Config(threshold, cap, excluded) ==
    [severityThreshold |-> threshold, maxIssuesPerRun |-> cap, excludedPaths |-> excluded]

Configs ==
    {Config("medium", cap, <<>>) : cap \in 1..MaxCap}
    \cup {Config("high", MaxCap, <<>>), Config("medium", MaxCap, <<<<"t">>>>)}

(***************************************************************************)
(* mapToOWASP, shouldExcludePath, meetsSeverityThreshold                   *)
(***************************************************************************)
mapToOWASP(ruleId) ==
    IF ruleId \notin DOMAIN codeql_to_owasp THEN NoCategory
    ELSE IF codeql_to_owasp[ruleId] \notin owasp_categories THEN NoCategory
    ELSE codeql_to_owasp[ruleId]

shouldExcludePath(filePath, excludedPaths) ==
    \E i \in 1..Len(excludedPaths) : Contains(filePath, excludedPaths[i])

severityLevels == <<"low", "medium", "high", "critical">>

\* Array.prototype.indexOf, 0-based, -1 when absent.
IndexOf(arr, x) ==
    IF \E i \in 1..Len(arr) : arr[i] = x
    THEN (CHOOSE i \in 1..Len(arr) : arr[i] = x /\ \A j \in 1..(i - 1) : arr[j] # x) - 1
    ELSE -1

\* The comparison with > in place of >=: a faulty variant the filter
\* properties must tell apart from the code's.
meetsSeverityThresholdMut(severity, severityThreshold) ==
    IndexOf(severityLevels, severity) > IndexOf(severityLevels, severityThreshold)

meetsSeverityThreshold(severity, severityThreshold) ==
    IndexOf(severityLevels, severity) >= IndexOf(severityLevels, severityThreshold)

(***************************************************************************)
(* groupFindingsByRuleAndFile                                              *)
(***************************************************************************)
GroupKey(finding) == finding.ruleId \o Colon \o finding.filePath

Occurrence(finding) ==
    [startLine |-> finding.startLine, endLine |-> finding.endLine,
     message |-> finding.message]

\* groups.set(key, {...}) for a key the map does not hold yet
NewGroup(finding) ==
    [key |-> GroupKey(finding),
     ruleId |-> finding.ruleId, filePath |-> finding.filePath,
     level |-> finding.level, severity |-> finding.severity,
     message |-> finding.message, occurrences |-> <<>>]

\* The loop body with unshift in place of push: a faulty variant the ordering
\* properties must tell apart from the code's.
GroupStepMut(gs, finding) ==
    LET key == GroupKey(finding)
        has == \E i \in 1..Len(gs) : gs[i].key = key
        gs1 == IF has THEN gs ELSE Append(gs, NewGroup(finding))
    IN  [i \in 1..Len(gs1) |->
            IF gs1[i].key = key
            THEN [gs1[i] EXCEPT !.occurrences = <<Occurrence(finding)>> \o @]
            ELSE gs1[i]]

\* One iteration of the for loop over findings; gs is the map in insertion order.
GroupStep(gs, finding) ==
    LET key == GroupKey(finding)
        has == \E i \in 1..Len(gs) : gs[i].key = key
        gs1 == IF has THEN gs ELSE Append(gs, NewGroup(finding))
    IN  [i \in 1..Len(gs1) |->
            IF gs1[i].key = key
            THEN [gs1[i] EXCEPT !.occurrences = Append(@, Occurrence(finding))]
            ELSE gs1[i]]

RECURSIVE GroupFold(_, _)
GroupFold(gs, fs) ==
    IF fs = <<>> THEN gs ELSE GroupFold(GroupStep(gs, Head(fs)), Tail(fs))

groupFindingsByRuleAndFile(fs) == GroupFold(<<>>, fs)

(***************************************************************************)
(* createIssueBody, createIssueTitle, generateLabels                       *)
(***************************************************************************)
OccurrenceText(occ) ==
    <<Tok("lines", <<>>, occ.startLine)>> \o occ.message

MAX_BODY_LENGTH == 65000

\* content.length of a guidance document; "L" is a document as long as the cap.
ContentLen(content) == IF content = "L" THEN MAX_BODY_LENGTH ELSE 1000

\* The characters a piece of body text takes: a run of plain text (a code
\* snippet, a message) or a document has its own length, a quoted word its
\* letters and two backticks, a line marker the word `Lines `and its digits.
\* The fixed text of the template is not counted.
TokLen(t) ==
    CASE t.k \in {"text", "prompt"}      -> t.n
      [] t.k \in {"rule", "file", "tick"} -> Len(t.s) + 2
      [] OTHER                            -> 6 + Len(NumToStr(t.n))

RECURSIVE BodyLen(_)
BodyLen(body) == IF body = <<>> THEN 0 ELSE TokLen(Head(body)) + BodyLen(Tail(body))

\* body.substring(0, room): the pieces that fit whole, then what is left of the
\* piece the cut falls in (plain text; a marker cut short is one no more).
RECURSIVE Substring(_, _)
Substring(body, room) ==
    IF body = <<>> \/ room = 0 THEN <<>>
    ELSE IF TokLen(Head(body)) <= room
    THEN <<Head(body)>> \o Substring(Tail(body), room - TokLen(Head(body)))
    ELSE <<Tok("text", <<>>, room)>>

\* The body as built before the final length check; prompts is
\* prompts.owaspPrompts, the contents fetched for the group.
FullBody(g, prompts) ==
    <<Tok("rule", g.ruleId, 0), Tok("file", g.filePath, 0)>>
    \o Flatten([i \in 1..Len(g.occurrences) |-> OccurrenceText(g.occurrences[i])])
    \o [i \in 1..Len(prompts) |-> Tok("prompt", <<prompts[i]>>, ContentLen(prompts[i]))]

\* createIssueBody: a body longer than MAX_BODY_LENGTH is cut there and the
\* truncation note appended.
createIssueBody(g, prompts) ==
    LET body == FullBody(g, prompts)
    IN  IF BodyLen(body) > MAX_BODY_LENGTH
        THEN Substring(body, MAX_BODY_LENGTH) \o <<Tok("note", <<>>, 0)>>
        ELSE body

createIssueTitle(g) ==
    [ruleName |-> g.ruleId, fileName |-> g.filePath, count |-> Len(g.occurrences)]

generateLabels(g, owaspKey) ==
    {"codeql-finding", "awaiting-remediation-plan"}
    \cup (IF g.severity \in DOMAIN label_mapping THEN {label_mapping[g.severity]} ELSE {})
    \cup (IF owaspKey # NoCategory THEN {"owasp/" \o owaspKey} ELSE {})

(***************************************************************************)
(* The tracker's listing, findExistingIssue, the sweep's parsing           *)
(***************************************************************************)
PerPage == 100

\* issues.listForRepo({labels: 'codeql-finding', state: 'open', per_page: 100}):
\* the open labelled issues, newest first, first page only.
RECURSIVE NewestFirst(_, _)
NewestFirst(iss, n) ==
    IF n = 0 THEN <<>>
    ELSE (IF iss[n].state = "open" /\ "codeql-finding" \in iss[n].labels
          THEN <<[number |-> n, body |-> iss[n].body, labels |-> iss[n].labels]>>
          ELSE <<>>) \o NewestFirst(iss, n - 1)

\* A listing without the label and state filters: a faulty variant the
\* frame properties must tell apart from the code's.
listForRepoMut(iss) ==
    [k \in 1..Len(iss) |->
        [number |-> Len(iss) + 1 - k, body |-> iss[Len(iss) + 1 - k].body,
         labels |-> iss[Len(iss) + 1 - k].labels]]

listForRepo(iss) ==
    LET all == NewestFirst(iss, Len(iss))
    IN  SubSeq(all, 1, IF Len(all) < PerPage THEN Len(all) ELSE PerPage)

\* body.includes("`" + word + "`")
IncludesQuoted(body, word) ==
    \E i \in 1..Len(body) : body[i].k \in {"rule", "file", "tick"} /\ body[i].s = word

IssueMatches(body, g) ==
    IncludesQuoted(body, g.ruleId) /\ IncludesQuoted(body, g.filePath)

\* The number of the first listed issue that matches, 0 for null.
findExistingIssue(g, listing) ==
    IF \E i \in 1..Len(listing) : IssueMatches(listing[i].body, g)
    THEN listing[CHOOSE i \in 1..Len(listing) :
                    /\ IssueMatches(listing[i].body, g)
                    /\ \A j \in 1..(i - 1) : ~IssueMatches(listing[j].body, g)].number
    ELSE 0

\* body.match(/\*\*CodeQL Rule\*\* \| `([^`]+)`/): the first such cell, <<>> for no match
CellMatch(body, kind) ==
    IF \E i \in 1..Len(body) : body[i].k = kind /\ body[i].s # <<>>
    THEN body[CHOOSE i \in 1..Len(body) :
                 /\ body[i].k = kind /\ body[i].s # <<>>
                 /\ \A j \in 1..(i - 1) : ~(body[j].k = kind /\ body[j].s # <<>>)].s
    ELSE <<>>

\* body.matchAll(/Lines?\s+(\d+)(?:-\d+)?/gi), then the old single-line format
issueLinesOf(body) ==
    LET ls == {body[i].n : i \in {j \in 1..Len(body) : body[j].k \in {"lines", "lineref"}}}
        old == {i \in 1..Len(body) : body[i].k = "oldlines"}
    IN  IF ls # {} THEN ls
        ELSE IF old # {} THEN {body[CHOOSE i \in old : \A j \in old : i <= j].n}
        ELSE {}

vulnKey(ruleId, filePath, line) ==
    ruleId \o Colon \o filePath \o Colon \o NumToStr(line)

\* hasAnyOccurrence of autoCloseResolvedIssues
hasAnyOccurrence(body, current) ==
    \E line \in issueLinesOf(body) :
        vulnKey(CellMatch(body, "rule"), CellMatch(body, "file"), line) \in current

(***************************************************************************)
(* The tracker's write calls                                               *)
(***************************************************************************)
\* issues.create({title, body, labels})
TrackerCreate(iss, title, body, labels) ==
    Append(iss, [title |-> title, body |-> body, labels |-> labels,
                 state |-> "open", comments |-> <<>>])

\* issues.update({issue_number, body, labels}): the labels given replace the issue's
TrackerUpdate(iss, n, body, labels) ==
    [iss EXCEPT ![n].body = body, ![n].labels = labels]

\* issues.createComment({issue_number, body})
TrackerComment(iss, n, kind) ==
    [iss EXCEPT ![n].comments = Append(@, kind)]

\* issues.update({issue_number, state: 'closed'})
TrackerClose(iss, n) == [iss EXCEPT ![n].state = "closed"]

\* issues.addLabels({issue_number, labels})
TrackerAddLabels(iss, n, labels) == [iss EXCEPT ![n].labels = @ \cup labels]

OpenCount(iss) == Cardinality({n \in 1..Len(iss) : iss[n].state = "open"})

(***************************************************************************)
(* fetchPrompt, verifyPromptUrl, verifyPromptIntegrity                     *)
(***************************************************************************)
Null == "null"

\* The three category arguments the callers pass.
Owasp == <<"o">>
Maintainability == <<"m">>
ThreatModeling == <<"t">>
Categories == {Owasp, Maintainability, ThreatModeling}

\* Prompt files and what the remote can answer for them.
FP == <<"p">>
FQ == <<"q">>
PromptFiles == {FP, FQ}
Contents == {"P", "Q", "T"}

\* The document published for a file (what the manifest was generated from).
Genuine(file) == IF file = FP THEN "P" ELSE "Q"

\* crypto.createHash('sha256').update(content).digest('hex')
Sha256Hex(content) ==
    CASE content = "P" -> "d1" [] content = "Q" -> "d2" [] OTHER -> "d3"

\* generateHash of generate-prompt-hashes.js: `sha256:${hash}`
generateHash(content) == <<"sha256:", Sha256Hex(content)>>

\* The manifest of the runs: the owasp document p is listed, q is not.
DefaultHashes == <<Owasp, FP>> :> generateHash("P")

\* promptHashes[category]?.[file]; <<>> stands for undefined.
ExpectedHash(hashes, category, file) ==
    IF <<category, file>> \in DOMAIN hashes THEN hashes[<<category, file>>] ELSE <<>>

EmptyCache == <<>>

\* `${category}/${file}`
CacheKey(category, file) == category \o <<"/">> \o file

ALLOWED_DOMAINS == {"raw.githubusercontent.com"}

\* The URL fetchPrompt builds, as new URL() reads it.
PromptUrl(category, file) ==
    [protocol |-> "https:", hostname |-> "raw.githubusercontent.com"]

verifyPromptUrl(url) == url.protocol = "https:" /\ url.hostname \in ALLOWED_DOMAINS

\* A check that accepts any content: a faulty variant the integrity
\* properties must tell apart from the code's.
verifyPromptIntegrityMut(content, expectedHash) == TRUE

verifyPromptIntegrity(content, expectedHash) ==
    <<"sha256:", Sha256Hex(content)>> = expectedHash

\* What axios.get can bring: a 200 with some content, a 404, any other failure.
NetOk(content) == [kind |-> "ok", content |-> content]
NetOutcomes ==
    {NetOk(c) : c \in Contents}
    \cup {[kind |-> k, content |-> Null] : k \in {"notfound", "error"}}

\* fetchPrompt: the value returned, the cache afterwards, and whether a request
\* went to the network.
fetchPrompt(cache, hashes, category, file, net) ==
    LET key == CacheKey(category, file)
        expectedHash == ExpectedHash(hashes, category, file)
    IN  IF key \in DOMAIN cache
        THEN [result |-> cache[key], cache |-> cache, requested |-> FALSE]
        ELSE IF expectedHash = <<>>
        THEN [result |-> Null, cache |-> cache, requested |-> FALSE]
        ELSE IF ~verifyPromptUrl(PromptUrl(category, file))
        THEN [result |-> Null, cache |-> cache, requested |-> FALSE]
        ELSE IF net.kind # "ok"
        THEN [result |-> Null, cache |-> (key :> Null) @@ cache, requested |-> TRUE]
        ELSE IF ~verifyPromptIntegrity(net.content, expectedHash)
        THEN [result |-> Null, cache |-> cache, requested |-> TRUE]
        ELSE [result |-> net.content, cache |-> (key :> net.content) @@ cache,
              requested |-> TRUE]

(***************************************************************************)
(* processFindings: the for loop over the grouped findings                 *)
(***************************************************************************)
NoResults ==
    [total |-> 0, created |-> 0, updated |-> 0, skipped |-> 0, closed |-> 0,
     errors |-> <<>>]

\* An error entry with the two fields taken from each other's source: a faulty
\* variant the error-list properties must tell apart from the code's.
ErrorEntryMut(g) == [ruleId |-> g.filePath, filePath |-> g.ruleId]

ErrorEntry(g) == [ruleId |-> g.ruleId, filePath |-> g.filePath]

\* The keys the loop adds for a group it processed: one per occurrence.
\* The keys main() adds to currentVulnerabilities for a handled group.
GroupKeys(g) ==
    {vulnKey(g.ruleId, g.filePath, g.occurrences[i].startLine) :
        i \in 1..Len(g.occurrences)}

\* The cap check with > in place of >=: a faulty variant the cap properties
\* must tell apart from the code's.
CapReachedMut(count, c) == count > c.maxIssuesPerRun

\* The cap check at the head of the loop body.
CapReached(count, c) == count >= c.maxIssuesPerRun

\* A filter stage that lets every group pass: a faulty variant the filter
\* properties must tell apart from the code's.
FilterReasonMut(g, c) == ""

\* The filter stage: "" when the group passes, else the reason it is skipped.
FilterReason(g, c) ==
    IF ~meetsSeverityThreshold(g.severity, c.severityThreshold) THEN "severity"
    ELSE IF shouldExcludePath(g.filePath, c.excludedPaths) THEN "path"
    ELSE IF mapToOWASP(g.ruleId) = NoCategory THEN "mapping"
    ELSE ""

\* An update that merges the computed labels into the ones the issue carries:
\* a faulty variant the update properties must tell apart from the code's.
UpdateLabelsMut(old, new) == old \cup new

\* The labels issues.update is given for an existing issue.
UpdateLabels(old, new) == new

\* createOrUpdateIssue after the lookup: existing is the number the lookup
\* returned (0 for null); writeFails and commentFails say which tracker call
\* fails.  The result is the tracker afterwards, the action ("created",
\* "updated") or "threw", whether a create or update was applied, and the
\* number of tracker calls issued (the listing, then the write calls).
updateOrCreate(iss, existing, g, body, labels, writeFails, commentFails) ==
    IF existing # 0
    THEN IF writeFails
         THEN [issues |-> iss, action |-> "threw", applied |-> FALSE,
               number |-> existing, calls |-> 2]
         ELSE LET upd == TrackerUpdate(iss, existing, body,
                                       UpdateLabels(iss[existing].labels, labels))
              IN  IF commentFails
                  THEN [issues |-> upd, action |-> "threw", applied |-> TRUE,
                        number |-> existing, calls |-> 3]
                  ELSE [issues |-> TrackerComment(upd, existing, "updated"),
                        action |-> "updated", applied |-> TRUE, number |-> existing,
                        calls |-> 3]
    ELSE IF writeFails
         THEN [issues |-> iss, action |-> "threw", applied |-> FALSE, number |-> 0,
               calls |-> 2]
         ELSE [issues |-> TrackerCreate(iss, createIssueTitle(g), body, labels),
               action |-> "created", applied |-> TRUE, number |-> Len(iss) + 1,
               calls |-> 2]

\* createOrUpdateIssue run without another run in between: the lookup
\* (lookupFails says whether its listing fails), then the write calls.
createOrUpdateIssue(iss, g, body, labels, lookupFails, writeFails, commentFails) ==
    updateOrCreate(iss, IF lookupFails THEN 0 ELSE findExistingIssue(g, listForRepo(iss)),
                   g, body, labels, writeFails, commentFails)

\* A write that looks the group up again in the tracker as it is by then: a
\* faulty variant the concurrency properties must tell apart from the code's.
ExistingAtWriteMut(existing, iss, g) == findExistingIssue(g, listForRepo(iss))

\* The issue the write calls act on: the one the lookup of the same call
\* returned earlier, whatever the tracker holds by now.
ExistingAtWrite(existing, iss, g) == existing

\* An exit status that is non-zero whatever the error list holds: a faulty
\* variant the exit-status properties must tell apart from the code's.
ExitOfMut(res) == 1

\* The exit status main() ends with after a summary was written.
ExitOf(res) == IF Len(res.errors) > 0 THEN 1 ELSE 0

(***************************************************************************)
(* State machine: runs of main() against one tracker, one after the other  *)
(***************************************************************************)
DefaultCfg == Config("high", 1, <<>>)

NoHist ==
    [startIssues |-> <<>>, openAtStart |-> 0, clean |-> TRUE,
     prevClean |-> TRUE,
     disposition |-> <<>>, applied |-> {}, sweptClosed |-> {}, skippedFP |-> {},
     items |-> <<>>,         \* per group, the issue number createOrUpdateIssue returned
     listed |-> <<>>,        \* the issue numbers the sweep's listing returned
     examined |-> <<>>,      \* the issue numbers the sweep's loop body ran for
     unparsed |-> {},        \* the issue numbers skipped for a marker that is missing
     sarif |-> <<>>,         \* the parsed JSON of the report: runs of results
     sweepRan |-> FALSE,
     report |-> "ok",        \* what the run found at sarifPath
     summary |-> FALSE,      \* generateSummary was called in this run
     calls |-> 0,            \* tracker calls issued in this run
     sweepThrew |-> FALSE,   \* autoCloseResolvedIssues threw in this run
     requests |-> <<>>,      \* cache keys requested from the network in this run
     fetch |-> [category |-> <<>>, file |-> <<>>, result |-> Null,
                requested |-> FALSE]]   \* the last call of fetchPrompt

(***************************************************************************)
(* The Express API of app.ts: limiters, validation, handlers               *)
(***************************************************************************)
\* The rateLimit configurations of rate-limiter.ts
globalLimiter == [windowMs |-> 15 * 60 * 1000, max |-> 100]
loginLimiter == [windowMs |-> 15 * 60 * 1000, max |-> 5]
passwordResetLimiter == [windowMs |-> 60 * 60 * 1000, max |-> 3]
searchLimiter == [windowMs |-> 60 * 1000, max |-> 30]
adminLimiter == [windowMs |-> 60 * 1000, max |-> 20]

\* The routes: four with a limiter of their own, and /api/upload standing for
\* the routes behind the global limiter only (encrypt, upload, fetch-url).
Endpoints == {"login", "search", "admin", "reset", "upload"}
Limited == {"login", "search", "admin", "reset"}

\* The limiter app.ts puts in front of a route's handler.
LimiterOf(e) ==
    CASE e = "login"  -> loginLimiter
      [] e = "search" -> searchLimiter
      [] e = "admin"  -> adminLimiter
      [] e = "reset"  -> passwordResetLimiter

\* A limiter that answers 429 from the max-th hit on: a faulty variant the
\* limit properties must tell apart from the configured one.
BlockedMut(totalHits, limiter) == totalHits >= limiter.max

\* A limiter that lets one request more pass: another faulty variant.
BlockedLateMut(totalHits, limiter) == totalHits > limiter.max + 1

\* rateLimit: a request is answered 429 when, counted itself, the hits of its
\* key in the window exceed max.
Blocked(totalHits, limiter) == totalHits > limiter.max

\* A handler that queries without validating: a faulty variant the validation
\* properties must tell apart from the code's.
HandlerStatusMut(e, valid, db) ==
    IF e = "upload" THEN 200
    ELSE IF db = "error" THEN 500
    ELSE IF db = "row" \/ e \in {"search", "reset"} THEN 200
    ELSE IF e = "login" THEN 401
    ELSE 404

\* The status a route's handler answers with: 400 when its Zod schema rejects
\* the input, else by what the query brings (a row, no row, an error).
HandlerStatus(e, valid, db) ==
    IF e = "upload" THEN 200
    ELSE IF ~valid THEN 400
    ELSE IF db = "error" THEN 500
    ELSE IF db = "row" \/ e \in {"search", "reset"} THEN 200
    ELSE IF e = "login" THEN 401
    ELSE 404

\* A response: the route, which of the client's requests to that route it
\* answers, the status, whether the input was valid, and the global limiter's
\* hit count when it went out.
NoResponse == [endpoint |-> "", n |-> 0, status |-> 0, valid |-> TRUE, total |-> 0]

\* No request yet: empty stores, nothing in flight.
\* No concurrent runs.
NoRunners == [pc |-> <<>>, existing |-> <<>>, action |-> <<>>, events |-> <<>>]

NoApp ==
    [hits |-> [l \in Limited \cup {"global"} |-> 0],
     sent |-> [e \in Endpoints |-> 0],        \* requests the client sent, per route
     flight |-> {},                           \* requests received and not answered
     last |-> NoResponse,                     \* the last response
     answered |-> [e \in Endpoints |-> 0],    \* responses, per route
     count429 |-> [e \in Endpoints |-> 0],    \* responses with status 429, per route
     peak |-> 0,                              \* most requests in flight at once
     allowed |-> {},                          \* the routes the client uses
     bodies |-> {},                           \* whether its inputs pass validation
     conc |-> 0]                              \* requests the client keeps in flight

\* Everything but the inputs: an empty tracker and no run yet.
InitRest ==
    /\ app = NoApp
    /\ runners = NoRunners
    /\ issues = <<>>
    /\ run = 0
    /\ groups = <<>>
    /\ gi = 1
    /\ processedCount = 0
    /\ currentVulnerabilities = {}
    /\ results = NoResults
    /\ openIssues = <<>>
    /\ si = 1
    /\ closedCount = 0
    /\ exitCode = 0
    /\ failures = 0
    /\ userLabels = {}
    /\ promptCache = EmptyCache
    /\ hist = NoHist

Init ==
    /\ pc = "idle"
    /\ cfg = DefaultCfg
    /\ findings = <<>>
    /\ promptHashes = DefaultHashes
    /\ InitRest

\* What StartRun records about the run that starts and the one before it.
HistAtStart(fs) ==
    [NoHist EXCEPT
        !.startIssues = issues,
        !.openAtStart = OpenCount(issues),
        !.prevClean = hist.clean,
        !.disposition = [i \in 1..Len(groupFindingsByRuleAndFile(fs)) |-> "pending"],
        !.items = [i \in 1..Len(groupFindingsByRuleAndFile(fs)) |-> 0]]

\* What can be at sarifPath besides a report: no file, a file JSON.parse
\* rejects, and JSON whose `runs` cannot be iterated.
UnreadableKinds == {"missing", "malformed", "badshape"}

\* A parser that throws on every file: a faulty variant the summary property
\* must tell apart from the code's.
ParseThrowsMut(kind) == TRUE

\* parseSARIFResults throws (outside its own try) only for JSON of the wrong shape.
ParseThrows(kind) == kind = "badshape"

\* A parser that hands back a placeholder finding where the code returns []:
\* a faulty variant the unreadable-report properties must tell apart.
parseSARIFResultsMut(kind, fs) ==
    IF kind = "ok" THEN fs
    ELSE <<ParsedFinding(R1, FA, 1, 1, "error", PlainText)>>

\* parseSARIFResults' return value: [] for a missing or unparsable file.
parseSARIFResults(kind, fs) == IF kind = "ok" THEN fs ELSE <<>>

\* main(): parse; a throw is fatal (exit 1); for an empty result write the zero
\* summary and return; otherwise enter processFindings (grouping included).
MainStart(kind, fs, c) ==
    LET parsed == parseSARIFResults(kind, fs)
        over == parsed = <<>> \/ ParseThrows(kind)
    IN  /\ pc = "idle"
        /\ run < MaxRuns
        /\ run' = run + 1
        /\ cfg' = c
        /\ findings' = parsed
        /\ groups' = IF over THEN <<>> ELSE groupFindingsByRuleAndFile(parsed)
        /\ gi' = 1
        /\ processedCount' = 0
        /\ currentVulnerabilities' = {}
        /\ results' = [NoResults EXCEPT !.total = Len(parsed)]
        /\ openIssues' = <<>>
        /\ si' = 1
        /\ closedCount' = 0
        /\ exitCode' = IF ParseThrows(kind) THEN 1 ELSE 0
        /\ pc' = IF over THEN "idle" ELSE "groups"
        /\ hist' = [HistAtStart(parsed) EXCEPT
                       !.report = kind,
                       !.summary = over /\ ~ParseThrows(kind)]
        /\ promptCache' = EmptyCache
        /\ UNCHANGED <<issues, failures, userLabels, promptHashes, app, runners>>

\* A run whose report parses.
StartRun(fs, c) == MainStart("ok", fs, c)

\* A run that finds no usable report at sarifPath.
StartRunUnreadable(kind) == MainStart(kind, <<>>, DefaultCfg)

Count(b) == IF b THEN 1 ELSE 0

\* One iteration of the for loop of processFindings.  net is what the network
\* answers if the group's guidance document is requested.  (The run is one with
\* ENABLE_MAINTAINABILITY and ENABLE_THREAT_MODEL off and no maintainability
\* aspects mapped: the OWASP document is the only one fetched for a group.)
ProcessGroup(lookupFails, writeFails, commentFails, net) ==
    /\ UNCHANGED <<app, runners>>
    /\ pc = "groups"
    /\ gi <= Len(groups)
    /\ LET g == groups[gi]
           nfail == Count(lookupFails) + Count(writeFails) + Count(commentFails)
           reason == FilterReason(g, cfg)
           file == prompt_file[mapToOWASP(g.ruleId)]
           f == fetchPrompt(promptCache, promptHashes, Owasp, file, net)
           netfail == Count(net # NetOk(Genuine(file)))
           prompts == IF f.result = Null THEN <<>> ELSE <<f.result>>
           body == createIssueBody(g, prompts)
           labels == generateLabels(g, mapToOWASP(g.ruleId))
           r == createOrUpdateIssue(issues, g, body, labels,
                                    lookupFails, writeFails, commentFails)
       IN  IF CapReached(processedCount, cfg)
           THEN \* results.skipped += groupedFindings.length - processedCount; break
                /\ nfail = 0
                /\ net = NetOk("P")
                /\ results' = [results EXCEPT !.skipped = @ + Len(groups) - processedCount]
                /\ gi' = Len(groups) + 1
                /\ hist' = [hist EXCEPT !.disposition =
                               [i \in 1..Len(groups) |->
                                   IF i >= gi THEN "capped" ELSE hist.disposition[i]]]
                /\ UNCHANGED <<issues, processedCount, currentVulnerabilities, failures,
                               promptCache>>
           ELSE IF reason # ""
           THEN \* results.skipped++; continue
                /\ nfail = 0
                /\ net = NetOk("P")
                /\ results' = [results EXCEPT !.skipped = @ + 1]
                /\ gi' = gi + 1
                /\ hist' = [hist EXCEPT !.disposition[gi] = "filtered"]
                /\ UNCHANGED <<issues, processedCount, currentVulnerabilities, failures,
                               promptCache>>
           ELSE /\ failures + nfail + netfail <= MaxFailures
                \* a flag names a call that is reached
                /\ commentFails => (r.number # 0 /\ ~writeFails)
                /\ ~f.requested => net = NetOk(Genuine(file))
                /\ promptCache' = f.cache
                /\ issues' = r.issues
                /\ failures' = failures + nfail + netfail
                /\ gi' = gi + 1
                /\ IF r.action = "threw"
                   THEN /\ results' = [results EXCEPT
                                          !.errors = Append(@, ErrorEntry(g)),
                                          !.skipped = @ + 1]
                        /\ UNCHANGED <<processedCount, currentVulnerabilities>>
                   ELSE /\ results' = IF r.action = "created"
                                      THEN [results EXCEPT !.created = @ + 1]
                                      ELSE [results EXCEPT !.updated = @ + 1]
                        /\ currentVulnerabilities' = currentVulnerabilities \cup GroupKeys(g)
                        /\ processedCount' = processedCount + 1
                /\ hist' = [hist EXCEPT
                               !.disposition[gi] = IF r.action = "threw" THEN "failed"
                                                   ELSE r.action,
                               !.items[gi] = IF r.action = "threw" THEN 0 ELSE r.number,
                               !.applied = IF r.applied THEN @ \cup {gi} ELSE @,
                               !.clean = @ /\ nfail = 0,
                               !.calls = @ + r.calls,
                               !.requests = IF f.requested
                                            THEN Append(@, CacheKey(Owasp, file))
                                            ELSE @]
    /\ UNCHANGED <<pc, run, cfg, findings, groups, openIssues, si, closedCount,
                   exitCode, userLabels, promptHashes>>

(***************************************************************************)
(* autoCloseResolvedIssues                                                 *)
(***************************************************************************)
\* A sweep without the label test: a faulty variant the override properties
\* must tell apart from the code's.
SkipsFalsePositiveMut(labels) == FALSE

\* labels.includes('false-positive')
SkipsFalsePositive(labels) == "false-positive" \in labels

\* A sweep without the tests for missing markers: a faulty variant the skip
\* properties must tell apart from the code's.
SweepDecisionMut(issue, current) ==
    IF SkipsFalsePositive(issue.labels) THEN "skip-fp"
    ELSE IF hasAnyOccurrence(issue.body, current) THEN "keep"
    ELSE "close"

\* What the sweep decides for one listed issue: "skip-fp", "skip-parse",
\* "skip-lines", "keep" or "close".
SweepDecision(issue, current) ==
    IF SkipsFalsePositive(issue.labels) THEN "skip-fp"
    ELSE IF CellMatch(issue.body, "rule") = <<>> \/ CellMatch(issue.body, "file") = <<>>
    THEN "skip-parse"
    ELSE IF issueLinesOf(issue.body) = {} THEN "skip-lines"
    ELSE IF hasAnyOccurrence(issue.body, current) THEN "keep"
    ELSE "close"

\* A close whose comment is the audit comment of an update: a faulty variant
\* the ordering properties must tell apart from the code's.
CloseCallsMut(iss, n, outcome) ==
    IF outcome = "closeFails" THEN iss
    ELSE TrackerComment(TrackerClose(iss, n), n, "updated")

\* The three calls that close an issue; outcome names the call that fails, if any.
CloseCalls(iss, n, outcome) ==
    IF outcome = "closeFails" THEN iss
    ELSE IF outcome = "commentFails" THEN TrackerClose(iss, n)
    ELSE IF outcome = "labelFails" THEN TrackerComment(TrackerClose(iss, n), n, "resolved")
    ELSE TrackerAddLabels(TrackerComment(TrackerClose(iss, n), n, "resolved"),
                          n, {"resolved"})

\* The tracker calls issued for one close, up to and including the failing one.
CallsOfClose(outcome) ==
    IF outcome = "closeFails" THEN 1 ELSE IF outcome = "commentFails" THEN 2 ELSE 3

\* The loop is over; the sweep lists the open labelled issues.
BeginSweep(listFails) ==
    /\ UNCHANGED <<app, runners>>
    /\ pc = "groups"
    /\ gi > Len(groups)
    /\ IF listFails
       THEN \* the sweep throws; processFindings logs it and main writes the summary
            /\ failures < MaxFailures
            /\ failures' = failures + 1
            /\ pc' = "idle"
            /\ exitCode' = ExitOf(results)
            /\ hist' = [hist EXCEPT !.clean = FALSE, !.sweepRan = TRUE,
                                    !.calls = @ + 1, !.sweepThrew = TRUE,
                                    !.summary = TRUE]
            /\ UNCHANGED <<openIssues, si, closedCount>>
       ELSE /\ openIssues' = listForRepo(issues)
            /\ si' = 1
            /\ closedCount' = 0
            /\ pc' = "sweep"
            /\ hist' = [hist EXCEPT !.sweepRan = TRUE, !.calls = @ + 1,
                                    !.listed = [k \in 1..Len(listForRepo(issues)) |->
                                                   listForRepo(issues)[k].number]]
            /\ UNCHANGED <<failures, exitCode>>
    /\ UNCHANGED <<issues, run, cfg, findings, groups, gi, processedCount,
                   currentVulnerabilities, results, userLabels, promptHashes,
                   promptCache>>

\* One iteration of the for loop over openIssues.
SweepIssue(outcome) ==
    /\ UNCHANGED <<app, runners>>
    /\ pc = "sweep"
    /\ si <= Len(openIssues)
    /\ LET issue == openIssues[si]
           n == issue.number
           d == SweepDecision(issue, currentVulnerabilities)
       IN  IF d = "close"
           THEN /\ issues' = CloseCalls(issues, n, outcome)
                /\ hist' = [hist EXCEPT
                               !.examined = Append(@, n),
                               !.sweptClosed = IF outcome = "closeFails" THEN @
                                               ELSE @ \cup {n},
                               !.clean = @ /\ outcome = "ok",
                               !.calls = @ + CallsOfClose(outcome),
                               !.sweepThrew = outcome # "ok",
                               !.summary = outcome # "ok"]
                /\ IF outcome = "ok"
                   THEN /\ closedCount' = closedCount + 1
                        /\ si' = si + 1
                        /\ UNCHANGED <<pc, exitCode, failures>>
                   ELSE \* the sweep throws: results.closed is never assigned
                        /\ failures < MaxFailures
                        /\ failures' = failures + 1
                        /\ pc' = "idle"
                        /\ exitCode' = ExitOf(results)
                        /\ UNCHANGED <<closedCount, si>>
           ELSE /\ outcome = "ok"
                /\ si' = si + 1
                /\ hist' = [hist EXCEPT
                               !.examined = Append(@, n),
                               !.unparsed = IF d \in {"skip-parse", "skip-lines"}
                                            THEN @ \cup {n} ELSE @,
                               !.skippedFP = IF d = "skip-fp" THEN @ \cup {n} ELSE @]
                /\ UNCHANGED <<issues, closedCount, pc, exitCode, failures>>
    /\ UNCHANGED <<run, cfg, findings, groups, gi, processedCount,
                   currentVulnerabilities, results, openIssues, userLabels,
                   promptHashes, promptCache>>

\* The sweep returned: results.closed = closedCount, generateSummary, exit status.
FinishRun ==
    /\ UNCHANGED <<app, runners>>
    /\ pc = "sweep"
    /\ si > Len(openIssues)
    /\ results' = [results EXCEPT !.closed = closedCount]
    /\ exitCode' = ExitOf(results)
    /\ pc' = "idle"
    /\ hist' = [hist EXCEPT !.summary = TRUE]
    /\ UNCHANGED <<issues, run, cfg, findings, groups, gi, processedCount,
                   currentVulnerabilities, openIssues, si, closedCount, failures,
                   userLabels, promptHashes, promptCache>>

(***************************************************************************)
(* A user of the tracker puts the `false-positive` label on an open issue, *)
(* between two runs                                                        *)
(***************************************************************************)
UserAddsFalsePositive(n) ==
    /\ UNCHANGED <<app, runners>>
    /\ pc = "idle"
    /\ Cardinality(userLabels) < MaxUserLabels
    /\ n \in 1..Len(issues)
    /\ issues[n].state = "open"
    /\ "false-positive" \notin issues[n].labels
    /\ issues' = TrackerAddLabels(issues, n, {"false-positive"})
    /\ userLabels' = userLabels \cup {n}
    /\ UNCHANGED <<pc, run, cfg, findings, groups, gi, processedCount,
                   currentVulnerabilities, results, openIssues, si, closedCount,
                   exitCode, failures, promptHashes, promptCache, hist>>

SweepOutcomes == {"ok", "closeFails", "commentFails", "labelFails"}

Next ==
    \/ \E fs \in Reports, c \in Configs : StartRun(fs, c)
    \/ \E k \in UnreadableKinds : StartRunUnreadable(k)
    \/ \E lf, wf, cf \in BOOLEAN, net \in NetOutcomes : ProcessGroup(lf, wf, cf, net)
    \/ \E lf \in BOOLEAN : BeginSweep(lf)
    \/ \E o \in SweepOutcomes : SweepIssue(o)
    \/ FinishRun
    \/ \E n \in 1..Len(issues) : UserAddsFalsePositive(n)

Spec == Init /\ [][Next]_vars

(***************************************************************************)
(* The same report and configuration run again and again                   *)
(***************************************************************************)
InitRerun ==
    /\ pc = "idle"
    /\ cfg \in Configs
    /\ findings \in Reports
    /\ promptHashes = DefaultHashes
    /\ InitRest

NextRerun ==
    \/ StartRun(findings, cfg)
    \/ \E lf, wf, cf \in BOOLEAN, net \in NetOutcomes : ProcessGroup(lf, wf, cf, net)
    \/ \E lf \in BOOLEAN : BeginSweep(lf)
    \/ \E o \in SweepOutcomes : SweepIssue(o)
    \/ FinishRun
    \/ \E n \in 1..Len(issues) : UserAddsFalsePositive(n)

SpecRerun == InitRerun /\ [][NextRerun]_vars

(***************************************************************************)
(* The same, with the run's own steps taken whenever they can be: every    *)
(* awaited tracker or network call settles (resolves or rejects; the       *)
(* guidance request carries a 10 s timeout), and the loops of              *)
(* processFindings and autoCloseResolvedIssues then go on                  *)
(***************************************************************************)
RunStep ==
    \/ \E lf, wf, cf \in BOOLEAN, net \in NetOutcomes : ProcessGroup(lf, wf, cf, net)
    \/ \E lf \in BOOLEAN : BeginSweep(lf)
    \/ \E o \in SweepOutcomes : SweepIssue(o)
    \/ FinishRun

SpecLive == InitRerun /\ [][NextRerun]_vars /\ WF_vars(RunStep)

(***************************************************************************)
(* groupFindingsByRuleAndFile applied to finding sequences whose rule ids  *)
(* and file paths may hold the separator of the map key                    *)
(***************************************************************************)
GroupPool ==
    { ParsedFinding(r, f, l, l, "error", PlainText) :
        r \in {<<"x">>, <<"x", ":", "a">>}, f \in {<<"a">>, <<"a", ":", "a">>},
        l \in {1, 2} }

InitGroup ==
    /\ pc = "grouping"
    /\ cfg = DefaultCfg
    /\ findings \in SeqsUpTo(GroupPool, MaxGroupInput)
    /\ promptHashes = DefaultHashes
    /\ InitRest

GroupRun ==
    /\ UNCHANGED <<app, runners>>
    /\ pc = "grouping"
    /\ groups' = groupFindingsByRuleAndFile(findings)
    /\ pc' = "grouped"
    /\ UNCHANGED <<issues, run, cfg, findings, gi, processedCount,
                   currentVulnerabilities, results, openIssues, si, closedCount,
                   exitCode, failures, userLabels, promptHashes, promptCache, hist>>

SpecGroup == InitGroup /\ [][GroupRun]_vars

(***************************************************************************)
(* groupFindingsByRuleAndFile applied to reports whose results of one rule *)
(* carry different levels                                                   *)
(***************************************************************************)
SeverityPool ==
    { ParsedFinding(R1, f, l, l, level, PlainText) :
        f \in {FA, FT}, l \in {1, 2}, level \in {"error", "none"} }

InitSeverity ==
    /\ pc = "grouping"
    /\ cfg = DefaultCfg
    /\ findings \in SeqsUpTo(SeverityPool, MaxGroupInput)
    /\ promptHashes = DefaultHashes
    /\ InitRest

SpecSeverity == InitSeverity /\ [][GroupRun]_vars

(***************************************************************************)
(* parseSARIFResults applied to the JSON of a report: runs of results with *)
(* and without a location, with regions whose numbers are missing, zero or *)
(* inconsistent, and with a snippet that is not a string                    *)
(***************************************************************************)
\* A result of the report.  A number of the region that is missing or zero
\* is 0 (both are falsy); located says whether locations[0].physicalLocation
\* exists; snippetIsText whether region.snippet.text, if any, is a string.
RawResult(located, startLine, endLine, startColumn, snippetIsText) ==
    [ruleId |-> R1, level |-> "error", uri |-> FA, located |-> located,
     region |-> [startLine |-> startLine, endLine |-> endLine,
                 startColumn |-> startColumn, endColumn |-> 0],
     snippetIsText |-> snippetIsText]

\* a || b on numbers
OrElse(a, b) == IF a = 0 THEN b ELSE a

\* The body of the loop over run.results: the findings it pushes, none when
\* the result has no location (continue) and none when the body throws
\* (codeSnippet.trim on a snippet that is not a string; caught and logged).
parseResult(result) ==
    IF ~result.located THEN <<>>
    ELSE IF ~result.snippetIsText THEN <<>>
    ELSE LET startLine == OrElse(result.region.startLine, 1)
             endLine == OrElse(result.region.endLine, startLine)
             startColumn == OrElse(result.region.startColumn, 1)
             endColumn == OrElse(result.region.endColumn, startColumn)
         IN  <<[ruleId |-> result.ruleId,
                filePath |-> IF result.uri = <<>> THEN <<"unknown">> ELSE result.uri,
                startLine |-> startLine, endLine |-> endLine,
                startColumn |-> startColumn, endColumn |-> endColumn,
                level |-> IF result.level = "" THEN "warning" ELSE result.level,
                severity |-> IF result.level \in DOMAIN severity_mapping
                             THEN severity_mapping[result.level] ELSE "medium",
                message |-> PlainText]>>

\* A loop that pushes the findings of a run in reverse: a faulty variant
\* the order properties must tell apart from the code's.
RECURSIVE parseResultsMut(_)
parseResultsMut(rs) ==
    IF rs = <<>> THEN <<>>
    ELSE parseResultsMut(Tail(rs)) \o parseResult(Head(rs))

\* for (const run of sarif.runs || []) for (const result of run.results || [])
RECURSIVE parseResults(_)
parseResults(rs) ==
    IF rs = <<>> THEN <<>>
    ELSE parseResult(Head(rs)) \o parseResults(Tail(rs))

RECURSIVE parseRuns(_)
parseRuns(sarif) ==
    IF sarif = <<>> THEN <<>>
    ELSE parseResults(Head(sarif)) \o parseRuns(Tail(sarif))

RawPool ==
    { RawResult(FALSE, 2, 3, 2, TRUE),
      RawResult(TRUE, 2, 3, 2, FALSE),
      RawResult(TRUE, 0, 0, 0, TRUE),
      RawResult(TRUE, 2, 0, 2, TRUE),
      RawResult(TRUE, 2, 3, 0, TRUE),
      RawResult(TRUE, 3, 1, 2, TRUE),
      RawResult(TRUE, 0, 3, 2, TRUE) }

RawReports == SeqsUpTo(SeqsUpTo(RawPool, MaxRawResults), MaxRawRuns)

InitParse ==
    /\ pc = "parsing"
    /\ cfg = DefaultCfg
    /\ findings = <<>>
    /\ promptHashes = DefaultHashes
    /\ app = NoApp
    /\ runners = NoRunners
    /\ issues = <<>>
    /\ run = 1
    /\ groups = <<>>
    /\ gi = 1
    /\ processedCount = 0
    /\ currentVulnerabilities = {}
    /\ results = NoResults
    /\ openIssues = <<>>
    /\ si = 1
    /\ closedCount = 0
    /\ exitCode = 0
    /\ failures = 0
    /\ userLabels = {}
    /\ promptCache = EmptyCache
    /\ \E sarif \in RawReports : hist = [NoHist EXCEPT !.sarif = sarif]

\* parseSARIFResults on a file that exists and holds the JSON hist.sarif.
ParseReport ==
    /\ UNCHANGED <<app, runners>>
    /\ pc = "parsing"
    /\ findings' = parseRuns(hist.sarif)
    /\ pc' = "parsed"
    /\ UNCHANGED <<issues, run, cfg, groups, gi, processedCount,
                   currentVulnerabilities, results, openIssues, si, closedCount,
                   exitCode, failures, userLabels, promptHashes, promptCache, hist>>

SpecParse == InitParse /\ [][ParseReport]_vars

(***************************************************************************)
(* One run of processFindings over groups of every severity, under every   *)
(* threshold and several exclusion lists, against an empty tracker         *)
(***************************************************************************)
\* A finding whose level the severity table maps to s.
FilterFinding(ruleId, filePath, s) ==
    [ParsedFinding(ruleId, filePath, 1, 1, "error", PlainText) EXCEPT !.severity = s]

FilterPool ==
    { FilterFinding(r, f, s) :
        r \in {R1, RX, RD}, f \in {FA, FT}, s \in Range(severityLevels) }

FilterConfigs ==
    { Config(t, 1, e) :
        t \in Range(severityLevels),
        e \in {<<>>, <<<<"t">>>>, <<<<"z">>, <<"t", "a">>>>} }

\* The state in which main() has parsed the report and grouped the findings.
InitFilter ==
    /\ pc = "groups"
    /\ cfg \in FilterConfigs
    /\ findings \in SeqsUpTo(FilterPool, MaxFilterLen) \ {<<>>}
    /\ promptHashes = DefaultHashes
    /\ issues = <<>>
    /\ run = 1
    /\ groups = groupFindingsByRuleAndFile(findings)
    /\ gi = 1
    /\ processedCount = 0
    /\ currentVulnerabilities = {}
    /\ results = [NoResults EXCEPT !.total = Len(findings)]
    /\ openIssues = <<>>
    /\ si = 1
    /\ closedCount = 0
    /\ exitCode = 0
    /\ failures = 0
    /\ userLabels = {}
    /\ promptCache = EmptyCache
    /\ hist = [NoHist EXCEPT !.disposition = [i \in 1..Len(groups) |-> "pending"],
                            !.items = [i \in 1..Len(groups) |-> 0]]
    /\ app = NoApp
    /\ runners = NoRunners

NextFilter ==
    \/ \E lf, wf, cf \in BOOLEAN, net \in NetOutcomes : ProcessGroup(lf, wf, cf, net)
    \/ \E lf \in BOOLEAN : BeginSweep(lf)
    \/ \E o \in SweepOutcomes : SweepIssue(o)
    \/ FinishRun

SpecFilter == InitFilter /\ [][NextFilter]_vars

(***************************************************************************)
(* One run of processFindings over up to MaxCountLen groups, some of them  *)
(* filtered, under a cap of one issue per run                               *)
(***************************************************************************)
\* One finding per group: two rules with a category in two files, and a rule
\* without one.
CountPool ==
    { ParsedFinding(R1, FA, 1, 1, "error", PlainText),
      ParsedFinding(R2, FA, 1, 1, "error", PlainText),
      ParsedFinding(R1, FT, 1, 1, "error", PlainText),
      ParsedFinding(RX, FA, 1, 1, "error", PlainText) }

\* The state in which main() has parsed the report and grouped the findings.
InitCount ==
    /\ pc = "groups"
    /\ cfg = DefaultCfg
    /\ findings \in SeqsUpTo(CountPool, MaxCountLen) \ {<<>>}
    /\ promptHashes = DefaultHashes
    /\ issues = <<>>
    /\ run = 1
    /\ groups = groupFindingsByRuleAndFile(findings)
    /\ gi = 1
    /\ processedCount = 0
    /\ currentVulnerabilities = {}
    /\ results = [NoResults EXCEPT !.total = Len(findings)]
    /\ openIssues = <<>>
    /\ si = 1
    /\ closedCount = 0
    /\ exitCode = 0
    /\ failures = 0
    /\ userLabels = {}
    /\ promptCache = EmptyCache
    /\ hist = [NoHist EXCEPT !.disposition = [i \in 1..Len(groups) |-> "pending"],
                            !.items = [i \in 1..Len(groups) |-> 0]]
    /\ app = NoApp
    /\ runners = NoRunners

SpecCount == InitCount /\ [][NextFilter]_vars

(***************************************************************************)
(* fetchPrompt called again and again in one process, for every category   *)
(* and file, under manifests that list a document with its digest, with    *)
(* the digest of other content, with a digest lacking the sha256: prefix,  *)
(* with an empty entry, or not at all                                      *)
(***************************************************************************)
ManifestPairs == {<<Owasp, FP>>, <<Owasp, FQ>>, <<Maintainability, FP>>}

EntryKinds == {"absent", "genuine", "other", "bare", "empty"}

ManifestEntry(kind, file) ==
    CASE kind = "genuine" -> generateHash(Genuine(file))
      [] kind = "other"   -> generateHash("T")
      [] kind = "bare"    -> <<Sha256Hex(Genuine(file))>>
      [] OTHER            -> <<>>

Manifests ==
    { [pr \in {q \in ManifestPairs : ch[q] # "absent"} |-> ManifestEntry(ch[pr], pr[2])] :
        ch \in [ManifestPairs -> EntryKinds] }

InitFetch ==
    /\ pc = "fetch"
    /\ cfg = DefaultCfg
    /\ findings = <<>>
    /\ promptHashes \in Manifests
    /\ InitRest

\* One call of fetchPrompt; net is what the network answers if it is asked.
FetchPrompt(category, file, net) ==
    /\ UNCHANGED <<app, runners>>
    /\ pc = "fetch"
    /\ LET f == fetchPrompt(promptCache, promptHashes, category, file, net)
       IN  /\ ~f.requested => net = NetOk("P")
           /\ f.requested => Len(hist.requests) < MaxRequests
           /\ promptCache' = f.cache
           /\ hist' = [hist EXCEPT !.fetch = [category |-> category, file |-> file,
                                              result |-> f.result,
                                              requested |-> f.requested],
                                   !.requests = IF f.requested
                                                THEN Append(@, CacheKey(category, file))
                                                ELSE @]
    /\ UNCHANGED <<issues, pc, run, cfg, findings, groups, gi, processedCount,
                   currentVulnerabilities, results, openIssues, si, closedCount,
                   exitCode, failures, userLabels, promptHashes>>

NextFetch ==
    \E c \in Categories, f \in PromptFiles, net \in NetOutcomes : FetchPrompt(c, f, net)

SpecFetch == InitFetch /\ [][NextFetch]_vars

(***************************************************************************)
(* createIssueBody applied to one group of up to MaxBodyOccurrences        *)
(* occurrences, with short and long texts and with and without guidance    *)
(***************************************************************************)
BodyPool ==
    { ParsedFinding(R1, FA, l, e, "error", m) :
        l \in {1, 2, 3}, e \in {3}, m \in {PlainText, LongText, MentionsLine} }

PromptSets == {<<>>, <<"P">>, <<"L">>, <<"P", "L">>}

InitBody ==
    /\ pc = "render"
    /\ cfg = DefaultCfg
    /\ findings \in SeqsUpTo(BodyPool, MaxBodyOccurrences) \ {<<>>}
    /\ promptHashes = DefaultHashes
    /\ InitRest

\* The group of the findings is rendered and the issue created with that body.
RenderBody(prompts) ==
    /\ UNCHANGED <<app, runners>>
    /\ pc = "render"
    /\ groups' = groupFindingsByRuleAndFile(findings)
    /\ issues' = TrackerCreate(issues, createIssueTitle(groups'[1]),
                               createIssueBody(groups'[1], prompts),
                               generateLabels(groups'[1], mapToOWASP(R1)))
    /\ pc' = "rendered"
    /\ UNCHANGED <<run, cfg, findings, gi, processedCount, currentVulnerabilities,
                   results, openIssues, si, closedCount, exitCode, failures,
                   userLabels, promptHashes, promptCache, hist>>

NextBody == \E prompts \in PromptSets : RenderBody(prompts)

SpecBody == InitBody /\ [][NextBody]_vars

(***************************************************************************)
(* findExistingIssue applied to trackers of up to MaxOpenItems open        *)
(* labelled issues besides the one that may match                           *)
(***************************************************************************)
\* An issue as createIssueBody and generateLabels render it for the one group
\* of finding f, in the given state and with the given labels.
ItemFor(f, state, labels) ==
    LET g == groupFindingsByRuleAndFile(<<f>>)[1]
    IN  [title |-> createIssueTitle(g), body |-> createIssueBody(g, <<>>),
         labels |-> labels, state |-> state, comments |-> <<>>]

LookedUp == ParsedFinding(R1, FA, 1, 1, "error", PlainText)
Unrelated == ParsedFinding(R2, FT, 1, 1, "error", PlainText)
PipelineLabels == generateLabels(groupFindingsByRuleAndFile(<<LookedUp>>)[1], mapToOWASP(R1))

\* The issue that may match: open and labelled, closed, without the sentinel
\* label, or about another rule and file.
Candidate(kind) ==
    IF kind = "match" THEN ItemFor(LookedUp, "open", PipelineLabels)
    ELSE IF kind = "closed" THEN ItemFor(LookedUp, "closed", PipelineLabels)
    ELSE IF kind = "unlabelled" THEN ItemFor(LookedUp, "open", {"bug"})
    ELSE ItemFor(Unrelated, "open", PipelineLabels)

CandidateKinds == {"match", "closed", "unlabelled", "other"}

\* n open labelled issues about another rule and file.
Fillers(n) == [i \in 1..n |-> ItemFor(Unrelated, "open", PipelineLabels)]

\* The candidate is the oldest or the newest issue of the tracker.
PagedTrackers ==
    { <<Candidate(kind)>> \o Fillers(n) : kind \in CandidateKinds, n \in 0..MaxOpenItems }
        \cup
    { Fillers(n) \o <<Candidate(kind)>> : kind \in CandidateKinds, n \in 0..MaxOpenItems }

InitPage ==
    /\ pc = "lookup"
    /\ cfg = DefaultCfg
    /\ findings = <<LookedUp>>
    /\ promptHashes = DefaultHashes
    /\ app = NoApp
    /\ runners = NoRunners
    /\ issues \in PagedTrackers
    /\ run = 1
    /\ groups = groupFindingsByRuleAndFile(findings)
    /\ gi = 1
    /\ processedCount = 0
    /\ currentVulnerabilities = {}
    /\ results = [NoResults EXCEPT !.total = Len(findings)]
    /\ openIssues = <<>>
    /\ si = 1
    /\ closedCount = 0
    /\ exitCode = 0
    /\ failures = 0
    /\ userLabels = {}
    /\ promptCache = EmptyCache
    /\ hist = [NoHist EXCEPT !.disposition = <<"pending">>, !.items = <<0>>]

\* One call of findExistingIssue for the group; a listing that throws is
\* caught and answered with null.
Lookup(listFails) ==
    /\ UNCHANGED <<app, runners>>
    /\ pc = "lookup"
    /\ hist' = [hist EXCEPT
                   !.items = <<IF listFails THEN 0
                               ELSE findExistingIssue(groups[1], listForRepo(issues))>>,
                   !.clean = ~listFails,
                   !.calls = @ + 1]
    /\ failures' = failures + Count(listFails)
    /\ pc' = "looked"
    /\ UNCHANGED <<run, cfg, findings, groups, gi, processedCount,
                   currentVulnerabilities, results, issues, openIssues, si,
                   closedCount, exitCode, userLabels, promptHashes, promptCache>>

NextPage == \E listFails \in BOOLEAN : Lookup(listFails)

SpecPage == InitPage /\ [][NextPage]_vars

(***************************************************************************)
(* autoCloseResolvedIssues applied to trackers that hold issues whose body *)
(* lacks a marker, next to issues the pipeline rendered                     *)
(***************************************************************************)
\* Bodies of open labelled issues: empty, without the rule cell, without the
\* file cell, without any line, in the old single-line format, and as
\* rendered today for line 1 and for line 2.
SweepBodies ==
    { <<>>,
      <<Tok("file", FA, 0), Tok("lines", <<>>, 1)>>,
      <<Tok("rule", R1, 0), Tok("lines", <<>>, 1)>>,
      <<Tok("rule", R1, 0), Tok("file", FA, 0)>>,
      <<Tok("rule", R1, 0), Tok("file", FA, 0), Tok("oldlines", <<>>, 2)>>,
      <<Tok("rule", R1, 0), Tok("file", FA, 0), Tok("lines", <<>>, 1)>>,
      <<Tok("rule", R1, 0), Tok("file", FA, 0), Tok("lines", <<>>, 2)>> }

SweepItems ==
    { [ItemFor(LookedUp, "open", labels) EXCEPT !.body = body] :
        body \in SweepBodies,
        labels \in {PipelineLabels, PipelineLabels \cup {"false-positive"}} }

\* The loop of processFindings is over: the one group of the report was
\* created (its issue is the newest and its key is recorded), or its create
\* call failed (no issue, no key).
InitSweep ==
    /\ pc = "groups"
    /\ cfg = DefaultCfg
    /\ findings = <<LookedUp>>
    /\ promptHashes = DefaultHashes
    /\ app = NoApp
    /\ runners = NoRunners
    /\ run = 1
    /\ groups = groupFindingsByRuleAndFile(findings)
    /\ gi = 2
    /\ openIssues = <<>>
    /\ si = 1
    /\ closedCount = 0
    /\ exitCode = 0
    /\ failures \in {0, 1}
    /\ userLabels = {}
    /\ promptCache = EmptyCache
    /\ \E old \in SeqsUpTo(SweepItems, MaxSweepItems) :
          IF failures = 0
          THEN /\ issues = Append(old, ItemFor(LookedUp, "open", PipelineLabels))
               /\ processedCount = 1
               /\ currentVulnerabilities = GroupKeys(groups[1])
               /\ results = [NoResults EXCEPT !.total = 1, !.created = 1]
               /\ hist = [NoHist EXCEPT !.startIssues = old,
                                        !.openAtStart = OpenCount(old),
                                        !.disposition = <<"created">>,
                                        !.items = <<Len(old) + 1>>,
                                        !.applied = {1}, !.calls = 2]
          ELSE /\ issues = old
               /\ processedCount = 0
               /\ currentVulnerabilities = {}
               /\ results = [NoResults EXCEPT !.total = 1, !.skipped = 1,
                                              !.errors = <<ErrorEntry(groups[1])>>]
               /\ hist = [NoHist EXCEPT !.startIssues = old,
                                        !.openAtStart = OpenCount(old),
                                        !.disposition = <<"failed">>,
                                        !.items = <<0>>,
                                        !.clean = FALSE, !.calls = 2]

NextSweep ==
    \/ \E lf \in BOOLEAN : BeginSweep(lf)
    \/ \E o \in SweepOutcomes : SweepIssue(o)
    \/ FinishRun

SpecSweep == InitSweep /\ [][NextSweep]_vars

(***************************************************************************)
(* One run of processFindings against trackers that hold closed issues and *)
(* open issues without the sentinel label, next to the pipeline's own       *)
(***************************************************************************)
FrameTrackers ==
    SeqsUpTo({Candidate(kind) : kind \in CandidateKinds}, MaxFrameItems)

\* The state in which main() has parsed the report and grouped the findings.
InitFrame ==
    /\ pc = "groups"
    /\ cfg = DefaultCfg
    /\ findings \in SeqsUpTo({LookedUp, Unrelated}, MaxFrameItems) \ {<<>>}
    /\ promptHashes = DefaultHashes
    /\ issues \in FrameTrackers
    /\ run = 1
    /\ groups = groupFindingsByRuleAndFile(findings)
    /\ gi = 1
    /\ processedCount = 0
    /\ currentVulnerabilities = {}
    /\ results = [NoResults EXCEPT !.total = Len(findings)]
    /\ openIssues = <<>>
    /\ si = 1
    /\ closedCount = 0
    /\ exitCode = 0
    /\ failures = 0
    /\ userLabels = {}
    /\ promptCache = EmptyCache
    /\ hist = [NoHist EXCEPT !.startIssues = issues,
                            !.openAtStart = OpenCount(issues),
                            !.disposition = [i \in 1..Len(groups) |-> "pending"],
                            !.items = [i \in 1..Len(groups) |-> 0]]
    /\ app = NoApp
    /\ runners = NoRunners

SpecFrame == InitFrame /\ [][NextFilter]_vars

(***************************************************************************)
(* Two runs of the script at the same time, against the same tracker and   *)
(* the same report: each looks its group up, then writes                    *)
(***************************************************************************)
Racers == {1, 2}

RacePool ==
    { ParsedFinding(r, f, l, l, "error", m) :
        r \in {R1, R2}, f \in {FA, FT}, l \in {1, 2}, m \in {PlainText, MentionsR2} }

\* The tracker the two runs start on: empty, or holding one issue.
RaceTrackers == {<<>>} \cup {<<Candidate(kind)>> : kind \in CandidateKinds}

InitRace ==
    /\ pc = "racing"
    /\ cfg = DefaultCfg
    /\ findings \in {<<f>> : f \in RacePool}
    /\ promptHashes = DefaultHashes
    /\ app = NoApp
    /\ runners = [pc |-> <<"lookup", "lookup">>, existing |-> <<0, 0>>,
                  action |-> <<"", "">>, events |-> <<>>]
    /\ issues \in RaceTrackers
    /\ run = 2
    /\ groups = groupFindingsByRuleAndFile(findings)
    /\ gi = 1
    /\ processedCount = 0
    /\ currentVulnerabilities = {}
    /\ results = [NoResults EXCEPT !.total = Len(findings)]
    /\ openIssues = <<>>
    /\ si = 1
    /\ closedCount = 0
    /\ exitCode = 0
    /\ failures = 0
    /\ userLabels = {}
    /\ promptCache = EmptyCache
    /\ hist = [NoHist EXCEPT !.startIssues = issues]

\* Run r awaits findExistingIssue for its group.
RaceLookup(r, listFails) ==
    /\ pc = "racing"
    /\ runners.pc[r] = "lookup"
    /\ failures + Count(listFails) <= MaxFailures
    /\ runners' = [runners EXCEPT
                      !.pc[r] = "write",
                      !.existing[r] = IF listFails THEN 0
                                      ELSE findExistingIssue(groups[1],
                                                             listForRepo(issues)),
                      !.events = Append(@, [run |-> r, step |-> "lookup",
                                            failed |-> listFails])]
    /\ failures' = failures + Count(listFails)
    /\ hist' = [hist EXCEPT !.clean = @ /\ ~listFails, !.calls = @ + 1]
    /\ UNCHANGED <<issues, pc, run, cfg, findings, groups, gi, processedCount,
                   currentVulnerabilities, results, openIssues, si, closedCount,
                   exitCode, userLabels, promptHashes, promptCache, app>>

\* Run r goes on after its lookup: it updates the issue the lookup returned,
\* or creates one.
RaceWrite(r, prompts, writeFails, commentFails) ==
    /\ pc = "racing"
    /\ runners.pc[r] = "write"
    /\ LET g == groups[1]
           existing == ExistingAtWrite(runners.existing[r], issues, g)
           w == updateOrCreate(issues, existing, g, createIssueBody(g, prompts),
                               generateLabels(g, mapToOWASP(g.ruleId)),
                               writeFails, commentFails)
           nfail == Count(writeFails) + Count(commentFails)
       IN  /\ failures + nfail <= MaxFailures
           /\ commentFails => (existing # 0 /\ ~writeFails)
           /\ issues' = w.issues
           /\ runners' = [runners EXCEPT
                             !.pc[r] = "done",
                             !.action[r] = w.action,
                             !.events = Append(@, [run |-> r, step |-> "write",
                                                   failed |-> nfail > 0])]
           /\ failures' = failures + nfail
           /\ hist' = [hist EXCEPT !.clean = @ /\ nfail = 0, !.calls = @ + w.calls - 1]
    /\ UNCHANGED <<pc, run, cfg, findings, groups, gi, processedCount,
                   currentVulnerabilities, results, openIssues, si, closedCount,
                   exitCode, userLabels, promptHashes, promptCache, app>>

NextRace ==
    \/ \E r \in Racers, listFails \in BOOLEAN : RaceLookup(r, listFails)
    \/ \E r \in Racers, prompts \in {<<>>, <<"P">>}, wf, cf \in BOOLEAN :
          RaceWrite(r, prompts, wf, cf)

SpecRace == InitRace /\ [][NextRace]_vars

(***************************************************************************)
(* One client (one IP, hence one key in every limiter store) sends         *)
(* requests within one window of every limiter                             *)
(***************************************************************************)
\* How many requests the client sends to a route: one more than can pass.
SendCap(e) ==
    (IF e \in Limited THEN LimiterOf(e).max ELSE globalLimiter.max) + MaxOverLimit

\* The client sends a request to route e, with a body the route's schema
\* accepts or not.
Send(e, valid) ==
    /\ pc = "serving"
    /\ e \in app.allowed
    /\ valid \in app.bodies
    /\ Cardinality(app.flight) < app.conc
    /\ app.sent[e] < SendCap(e)
    /\ LET r == [endpoint |-> e, n |-> app.sent[e] + 1, valid |-> valid,
                 stage |-> "global"]
           fl == app.flight \cup {r}
       IN  app' = [app EXCEPT !.sent[e] = @ + 1,
                              !.flight = fl,
                              !.peak = IF Cardinality(fl) > @ THEN Cardinality(fl) ELSE @]
    /\ UNCHANGED <<issues, pc, run, cfg, findings, groups, gi, processedCount,
                   currentVulnerabilities, results, openIssues, si, closedCount,
                   exitCode, failures, userLabels, promptHashes, promptCache, hist,
                   runners>>

\* The response to request r goes out.
Respond(a, r, status) ==
    [a EXCEPT !.flight = @ \ {r},
              !.last = [endpoint |-> r.endpoint, n |-> r.n, status |-> status,
                        valid |-> r.valid, total |-> a.hits["global"]],
              !.answered[r.endpoint] = @ + 1,
              !.count429[r.endpoint] = IF status = 429 THEN @ + 1 ELSE @]

\* A request moves on to the next middleware of its route.
Forward(a, r, stage) ==
    [a EXCEPT !.flight = (@ \ {r}) \cup {[r EXCEPT !.stage = stage]}]

\* app.use(globalLimiter): the hit is counted, then the request is answered
\* 429 or passed on.
GlobalStep(r) ==
    /\ pc = "serving"
    /\ r \in app.flight
    /\ r.stage = "global"
    /\ LET total == app.hits["global"] + 1
           a == [app EXCEPT !.hits["global"] = total]
       IN  app' = IF Blocked(total, globalLimiter) THEN Respond(a, r, 429)
                  ELSE Forward(a, r, IF r.endpoint \in Limited THEN "limiter"
                                     ELSE "handler")
    /\ UNCHANGED <<issues, pc, run, cfg, findings, groups, gi, processedCount,
                   currentVulnerabilities, results, openIssues, si, closedCount,
                   exitCode, failures, userLabels, promptHashes, promptCache, hist,
                   runners>>

\* The route's own limiter, likewise.
LimiterStep(r) ==
    /\ pc = "serving"
    /\ r \in app.flight
    /\ r.stage = "limiter"
    /\ LET total == app.hits[r.endpoint] + 1
           a == [app EXCEPT !.hits[r.endpoint] = total]
       IN  app' = IF Blocked(total, LimiterOf(r.endpoint)) THEN Respond(a, r, 429)
                  ELSE Forward(a, r, IF r.endpoint = "login" THEN "slowdown"
                                     ELSE "handler")
    /\ UNCHANGED <<issues, pc, run, cfg, findings, groups, gi, processedCount,
                   currentVulnerabilities, results, openIssues, si, closedCount,
                   exitCode, failures, userLabels, promptHashes, promptCache, hist,
                   runners>>

\* loginSlowDown: the request is held back for a while, then passed on.
SlowDownStep(r) ==
    /\ pc = "serving"
    /\ r \in app.flight
    /\ r.stage = "slowdown"
    /\ app' = Forward(app, r, "handler")
    /\ UNCHANGED <<issues, pc, run, cfg, findings, groups, gi, processedCount,
                   currentVulnerabilities, results, openIssues, si, closedCount,
                   exitCode, failures, userLabels, promptHashes, promptCache, hist,
                   runners>>

QueryOutcomes == {"row", "norow", "error"}

\* The route's handler: validation, query, response.
HandlerStep(r, db) ==
    /\ pc = "serving"
    /\ r \in app.flight
    /\ r.stage = "handler"
    /\ (~r.valid \/ r.endpoint = "upload") => db = "row"
    /\ app' = Respond(app, r, HandlerStatus(r.endpoint, r.valid, db))
    /\ UNCHANGED <<issues, pc, run, cfg, findings, groups, gi, processedCount,
                   currentVulnerabilities, results, openIssues, si, closedCount,
                   exitCode, failures, userLabels, promptHashes, promptCache, hist,
                   runners>>

NextApp ==
    \/ \E e \in Endpoints, valid \in BOOLEAN : Send(e, valid)
    \/ \E r \in app.flight : GlobalStep(r)
    \/ \E r \in app.flight : LimiterStep(r)
    \/ \E r \in app.flight : SlowDownStep(r)
    \/ \E r \in app.flight, db \in QueryOutcomes : HandlerStep(r, db)

InitServing ==
    /\ pc = "serving"
    /\ cfg = DefaultCfg
    /\ findings = <<>>
    /\ promptHashes = DefaultHashes
    /\ issues = <<>>
    /\ run = 0
    /\ groups = <<>>
    /\ gi = 1
    /\ processedCount = 0
    /\ currentVulnerabilities = {}
    /\ results = NoResults
    /\ openIssues = <<>>
    /\ si = 1
    /\ closedCount = 0
    /\ exitCode = 0
    /\ failures = 0
    /\ userLabels = {}
    /\ promptCache = EmptyCache
    /\ hist = NoHist
    /\ runners = NoRunners

\* The client awaits each response before its next request, and uses up to
\* MaxEndpointsUsed routes.
InitApp ==
    /\ InitServing
    /\ \E used \in SUBSET Endpoints :
          /\ used # {}
          /\ Cardinality(used) <= MaxEndpointsUsed
          /\ app = [NoApp EXCEPT !.allowed = used, !.bodies = BOOLEAN, !.conc = 1]

SpecApp == InitApp /\ [][NextApp]_vars

\* The client keeps up to MaxInFlight login requests in flight at once, all
\* with well-formed credentials.
InitConc ==
    /\ InitServing
    /\ app = [NoApp EXCEPT !.allowed = {"login"}, !.bodies = {TRUE},
                           !.conc = MaxInFlight]

SpecConc == InitConc /\ [][NextApp]_vars

(***************************************************************************)
(* Properties                                                              *)
(***************************************************************************)
Managed(issue) == issue.state = "open" /\ "codeql-finding" \in issue.labels

RuleOf(body) == CellMatch(body, "rule")
FileOf(body) == CellMatch(body, "file")

AfterRun == pc = "idle" /\ run >= 1

\* The index of the grouped finding a finding of the report went into.
GroupIndexOf(f) == CHOOSE i \in 1..Len(groups) : groups[i].key = GroupKey(f)

\* A finding of the current report has the issue's rule, file and one of its
\* lines, and its group ended the loop with one of the given dispositions.
StillReported(body, dispositions) ==
    \E j \in 1..Len(findings) :
        /\ findings[j].ruleId = RuleOf(body)
        /\ findings[j].filePath = FileOf(body)
        /\ findings[j].startLine \in issueLinesOf(body)
        /\ hist.disposition[GroupIndexOf(findings[j])] \in dispositions

\* C1: after any run, no two open issues labelled `codeql-finding` carry the
\* same rule cell and the same file cell, whichever tracker calls failed.
AtMostOneOpenPerKey ==
    pc = "idle" =>
        \A m, n \in 1..Len(issues) :
            (m < n /\ Managed(issues[m]) /\ Managed(issues[n]))
                => ~(/\ RuleOf(issues[m].body) = RuleOf(issues[n].body)
                     /\ FileOf(issues[m].body) = FileOf(issues[n].body))

\* C2: a run with the report and configuration of the run before it, no
\* tracker call failing in either, creates nothing and leaves the number of
\* open issues as it was when the run started.
RerunUpdatesOnly ==
    (AfterRun /\ run >= 2 /\ hist.clean /\ hist.prevClean)
        => /\ results.created = 0
           /\ OpenCount(issues) = hist.openAtStart

\* C3: an issue that is open and not labelled `false-positive` when a run
\* starts, and whose rule and file have no finding in that run's report, is
\* closed when the run is over, no tracker call having failed.
ConvergenceAfterRun ==
    (AfterRun /\ hist.clean)
        => \A n \in 1..Len(hist.startIssues) :
              (/\ Managed(hist.startIssues[n])
               /\ "false-positive" \notin hist.startIssues[n].labels
               /\ "false-positive" \notin issues[n].labels
               /\ ~\E j \in 1..Len(findings) :
                      /\ findings[j].ruleId = RuleOf(hist.startIssues[n].body)
                      /\ findings[j].filePath = FileOf(hist.startIssues[n].body))
                  => issues[n].state = "closed"

\* C4: the sweep closes no issue that has one of its lines reported by a
\* finding of the current report whose group the filter stage rejected.
SweepSparesFilteredFindings ==
    \A n \in hist.sweptClosed : ~StillReported(issues[n].body, {"filtered"})

\* C5: the sweep closes no issue that has one of its lines reported by a
\* finding of the current report whose group was skipped by the cap or whose
\* create/update attempt failed.
SweepSparesCappedAndFailed ==
    \A n \in hist.sweptClosed : ~StillReported(issues[n].body, {"capped", "failed"})

\* C6: a step of the sweep that examines a listed issue carrying the
\* `false-positive` label changes nothing in the tracker.
SweepLeavesFalsePositiveAlone ==
    [][(/\ pc = "sweep"
        /\ si <= Len(openIssues)
        /\ "false-positive" \in openIssues[si].labels) => issues' = issues]_vars

\* C6 witness: the sweep skipped a labelled issue none of whose lines is live,
\* and the issue is still open when the run is over.
FalsePositiveSkipped ==
    /\ AfterRun
    /\ \E n \in hist.skippedFP :
          /\ issues[n].state = "open"
          /\ ~hasAnyOccurrence(issues[n].body, currentVulnerabilities)

\* C7: an issue a user labelled `false-positive` keeps the label and stays open.
UserLabelSticks ==
    \A n \in userLabels :
        "false-positive" \in issues[n].labels /\ issues[n].state = "open"

\* C8: in one run, a create or an update is applied for at most maxIssuesPerRun
\* grouped findings.
AppliedWithinCap == Cardinality(hist.applied) <= cfg.maxIssuesPerRun

AllActionable == \A i \in 1..Len(groups) : FilterReason(groups[i], cfg) = ""

\* C9: when all n groups of the report are actionable, n exceeds the cap c and
\* no tracker call fails, created + updated = c and skipped = n - c.
CapScenarioCounts ==
    (AfterRun /\ hist.clean /\ AllActionable /\ Len(groups) > cfg.maxIssuesPerRun)
        => /\ results.created + results.updated = cfg.maxIssuesPerRun
           /\ results.skipped = Len(groups) - cfg.maxIssuesPerRun

\* C9 witness: such a run is over, and it updated an issue an earlier run created.
CapScenarioReached ==
    /\ AfterRun /\ hist.clean /\ AllActionable
    /\ Len(groups) > cfg.maxIssuesPerRun
    /\ results.updated >= 1
    /\ results.skipped >= 1

PairOf(x) == <<x.ruleId, x.filePath>>

\* C10: grouping is a partition of the findings by (ruleId, filePath): as many
\* occurrences as findings, each group holding exactly the findings of its
\* pair, and one group for each pair present.
GroupingIsPartition ==
    pc = "grouped" =>
        /\ Len(Flatten([i \in 1..Len(groups) |-> groups[i].occurrences])) = Len(findings)
        /\ \A i \in 1..Len(groups) :
              Len(groups[i].occurrences) =
                  Cardinality({j \in 1..Len(findings) : PairOf(findings[j]) = PairOf(groups[i])})
        /\ \A i, k \in 1..Len(groups) : PairOf(groups[i]) = PairOf(groups[k]) => i = k
        /\ {PairOf(groups[i]) : i \in 1..Len(groups)}
               = {PairOf(findings[j]) : j \in 1..Len(findings)}

\* The index in findings at which a (ruleId, filePath) pair first appears.
FirstIndexOf(pair) ==
    CHOOSE j \in 1..Len(findings) :
        PairOf(findings[j]) = pair /\ \A h \in 1..(j - 1) : PairOf(findings[h]) # pair

\* a is b with some elements left out, the order kept.
RECURSIVE IsSubSeq(_, _)
IsSubSeq(a, b) ==
    IF a = <<>> THEN TRUE
    ELSE IF b = <<>> THEN FALSE
    ELSE IF Head(a) = Head(b) THEN IsSubSeq(Tail(a), Tail(b))
    ELSE IsSubSeq(a, Tail(b))

\* C11: the groups come in the order in which their (ruleId, filePath) first
\* appears among the findings, the occurrences of a group come in the order of
\* the findings, and no group is without an occurrence.
GroupingKeepsOrder ==
    pc = "grouped" =>
        /\ \A i, k \in 1..Len(groups) :
              i < k => FirstIndexOf(PairOf(groups[i])) < FirstIndexOf(PairOf(groups[k]))
        /\ \A i \in 1..Len(groups) :
              /\ IsSubSeq(groups[i].occurrences,
                          [j \in 1..Len(findings) |-> Occurrence(findings[j])])
              /\ Len(groups[i].occurrences) >= 1

\* C11 witness: two groups, the findings of the first on both sides of the
\* finding of the second, on different lines.
GroupingInterleaved ==
    /\ pc = "grouped"
    /\ Len(groups) = 2
    /\ Len(findings) = 3
    /\ PairOf(findings[1]) = PairOf(findings[3])
    /\ PairOf(findings[1]) # PairOf(findings[2])
    /\ findings[1].startLine # findings[3].startLine
    /\ Len(groups[1].occurrences) = 2

\* The order low < medium < high < critical.
Rank(s) ==
    CASE s = "low" -> 0 [] s = "medium" -> 1 [] s = "high" -> 2 [] s = "critical" -> 3

\* The three conditions under which a group is to be acted on.
Actionable(g, c) ==
    /\ Rank(g.severity) >= Rank(c.severityThreshold)
    /\ \A i \in 1..Len(c.excludedPaths) : ~Contains(g.filePath, c.excludedPaths[i])
    /\ g.ruleId \in DOMAIN codeql_to_owasp
    /\ codeql_to_owasp[g.ruleId] \in owasp_categories

Attempted == {"created", "updated", "failed"}

\* C12: a group the loop reached before the cap was given to createOrUpdateIssue
\* if and only if its severity ranks at least as high as the threshold, no
\* exclusion string occurs in its file path and its rule maps to a known category.
FilterIffActionable ==
    \A i \in 1..Len(groups) :
        /\ hist.disposition[i] \in Attempted => Actionable(groups[i], cfg)
        /\ hist.disposition[i] = "filtered" => ~Actionable(groups[i], cfg)

\* C12 witness: a group whose severity equals the threshold was created, the
\* exclusion list being non-empty, and the run is over.
ThresholdGroupCreated ==
    /\ pc = "idle"
    /\ Len(groups) >= 1
    /\ hist.disposition[1] = "created"
    /\ groups[1].severity = cfg.severityThreshold
    /\ groups[1].severity = "high"
    /\ cfg.excludedPaths # <<>>

\* C13: the loop iteration of a group that is not actionable (the cap not yet
\* reached) calls the tracker not at all, leaves the tracker and the error list
\* as they are and adds exactly one to the skipped count.
FilteredGroupTouchesNothing ==
    [][(/\ pc = "groups"
        /\ gi <= Len(groups)
        /\ ~CapReached(processedCount, cfg)
        /\ ~Actionable(groups[gi], cfg))
       => (/\ issues' = issues
           /\ hist'.calls = hist.calls
           /\ results'.errors = results.errors
           /\ results'.skipped = results.skipped + 1)]_vars

\* C13 witness: a group was filtered while an open issue of an earlier run
\* carries its rule and file.
FilteredGroupHadIssue ==
    \E i \in 1..Len(groups) :
        /\ hist.disposition[i] = "filtered"
        /\ \E n \in 1..Len(hist.startIssues) :
              /\ Managed(hist.startIssues[n])
              /\ RuleOf(hist.startIssues[n].body) = groups[i].ruleId
              /\ FileOf(hist.startIssues[n].body) = groups[i].filePath

\* The indices of the groups with disposition d, in loop order.
IndicesWith(d) ==
    SelectSeq([i \in 1..Len(hist.disposition) |-> i],
              LAMBDA i : hist.disposition[i] = d)

\* The number of groups before the i-th that were created or updated.
ProcessedBefore(i) ==
    Cardinality({j \in 1..(i - 1) : hist.disposition[j] \in {"created", "updated"}})

RunOver == pc = "idle" /\ run >= 1 /\ hist.report = "ok" /\ findings # <<>>

\* C14: the error list holds exactly one entry for each group whose create or
\* update (audit comment included) failed, in loop order, naming that group;
\* and when the run is over every group was examined: none is left pending, a
\* group is cap-skipped only if the cap was reached before it, and a group is
\* filtered only if it is not actionable.
FailureDoesNotStopRun ==
    /\ results.errors =
           [k \in 1..Len(IndicesWith("failed")) |->
               [ruleId |-> groups[IndicesWith("failed")[k]].ruleId,
                filePath |-> groups[IndicesWith("failed")[k]].filePath]]
    /\ RunOver =>
           \A i \in 1..Len(groups) :
               /\ hist.disposition[i] # "pending"
               /\ hist.disposition[i] = "capped"
                      => ProcessedBefore(i) >= cfg.maxIssuesPerRun
               /\ hist.disposition[i] = "filtered" => ~Actionable(groups[i], cfg)

\* C14 witness: the first group failed and the second was then created.
LaterGroupProcessedAfterFailure ==
    /\ RunOver
    /\ Len(groups) = 2
    /\ hist.disposition[1] = "failed"
    /\ hist.disposition[2] = "created"
    /\ Len(results.errors) = 1

\* C15: the step in which the auto-close sweep throws leaves the results record
\* (created, updated, skipped, error list) and every issue's title, body and
\* labels as they were, ends the run with the summary written, and the exit
\* status is non-zero only if the error list is non-empty.
SweepFailureAbortsOnlySweep ==
    [][(hist'.sweepThrew /\ ~hist.sweepThrew)
       => (/\ results' = results
           /\ Len(issues') = Len(issues)
           /\ \A n \in 1..Len(issues) :
                 /\ issues'[n].title = issues[n].title
                 /\ issues'[n].body = issues[n].body
                 /\ issues'[n].labels = issues[n].labels
           /\ hist'.summary
           /\ pc' = "idle"
           /\ exitCode' = IF Len(results.errors) > 0 THEN 1 ELSE 0)]_vars

\* C15 witness: a run that created an issue and whose sweep then threw is over,
\* with the summary written and exit status 0.
SweepThrewAfterCreate ==
    /\ RunOver
    /\ hist.sweepThrew
    /\ results.created >= 1
    /\ results.errors = <<>>
    /\ hist.summary
    /\ exitCode = 0

\* C16: a run whose report file is missing or cannot be parsed makes no tracker
\* call: the step that starts it leaves every issue as it was, counts no call,
\* and ends the run.
NoTrackerCallOnUnreadableReport ==
    [][(run' = run + 1 /\ hist'.report # "ok")
       => (/\ issues' = issues
           /\ hist'.calls = 0
           /\ pc' = "idle")]_vars

\* C16 witness: a run found no parsable report while the tracker held an open
\* managed issue, and is over.
UnreadableRunOverOpenIssue ==
    /\ pc = "idle"
    /\ run >= 1
    /\ hist.report \in {"missing", "malformed"}
    /\ hist.calls = 0
    /\ \E n \in 1..Len(issues) : issues[n].state = "open"

\* C17: a run whose report file cannot be parsed (JSON.parse rejects it) ends
\* with a non-zero exit status.
MalformedReportIsFatal ==
    (pc = "idle" /\ run >= 1 /\ hist.report = "malformed") => exitCode # 0

\* C18: a run that started with a parsable report eventually has its summary
\* written, whichever of its tracker calls, guidance requests or sweep calls fail.
RunEventuallyWritesSummary ==
    (run >= 1 /\ hist.report = "ok") ~> hist.summary

\* C18 witness: a run in which a group's tracker call failed is over and its
\* summary is written.
SummaryAfterGroupFailure ==
    /\ RunOver
    /\ hist.summary
    /\ results.errors # <<>>
    /\ hist.sweepRan

\* C19: when a run is over, every issue its sweep moved to closed also carries
\* the resolution comment and the `resolved` label.
ClosingIsAllOrNothing ==
    (pc = "idle" /\ run >= 1)
        => \A n \in hist.sweptClosed :
              /\ issues[n].state = "closed"
              /\ \E k \in 1..Len(issues[n].comments) : issues[n].comments[k] = "resolved"
              /\ "resolved" \in issues[n].labels

\* The manifest lists (category, file) and the SHA-256 digest of content, in the
\* manifest's format, is the entry listed.
Verified(hashes, category, file, content) ==
    /\ <<category, file>> \in DOMAIN hashes
    /\ hashes[<<category, file>>] = <<"sha256:", Sha256Hex(content)>>

\* C20: fetchPrompt returns null or content whose (category, file) is in the
\* hash manifest with the digest of that content, whether the content comes
\* from the network or from the cache; every cache entry is null or such content.
FetchServesOnlyVerified ==
    /\ hist.fetch.result # Null
          => Verified(promptHashes, hist.fetch.category, hist.fetch.file,
                      hist.fetch.result)
    /\ \A key \in DOMAIN promptCache :
          \E c \in Categories, f \in PromptFiles :
             /\ key = CacheKey(c, f)
             /\ promptCache[key] # Null
                   => Verified(promptHashes, c, f, promptCache[key])

\* C20 witness: a call was answered from the cache with a document.
FetchServedFromCache ==
    /\ pc = "fetch"
    /\ hist.fetch.result # Null
    /\ ~hist.fetch.requested

\* C21: within one process no cache key is requested from the network twice,
\* whatever the first request brought.
AtMostOneRequestPerDocument ==
    \A i, j \in 1..Len(hist.requests) :
        i # j => hist.requests[i] # hist.requests[j]

\* The body holds the rule cell, the file cell and a `Lines <n>` marker for
\* the start line of every occurrence of g.
HasMarkers(body, g) ==
    /\ \E i \in 1..Len(body) : body[i] = Tok("rule", g.ruleId, 0)
    /\ \E i \in 1..Len(body) : body[i] = Tok("file", g.filePath, 0)
    /\ \A o \in 1..Len(g.occurrences) :
          \E i \in 1..Len(body) : body[i] = Tok("lines", <<>>, g.occurrences[o].startLine)

\* C22: the body createIssueBody returns for a group, truncated or not, holds
\* the rule marker, the file marker and the line marker of every occurrence.
BodyKeepsMarkers ==
    pc = "rendered" => HasMarkers(issues[1].body, groups[1])

ConcurrentLoginsLimited ==
    app.answered["login"] >= 6 => app.count429["login"] >= 1

\* C25 witness: six login requests were in flight at once, all six are
\* answered, and exactly one answer is 429.
SixConcurrentLoginsAnswered ==
    /\ app.peak = 6
    /\ app.answered["login"] = 6
    /\ app.flight = {}
    /\ app.count429["login"] = 1

\* The issues createOrUpdateIssue returned for the groups this run created or
\* updated.
ProcessedItems ==
    {hist.items[i] : i \in {j \in DOMAIN hist.items :
                                hist.disposition[j] \in {"created", "updated"}}}

\* C26: an issue a run created or updated for a group is open from then to the
\* end of that run; the sweep of the same run, when it examines the issue,
\* finds one of its lines live, and no step of the sweep changes its state,
\* comments or labels.
ProcessedItemsSurviveSweep ==
    /\ [](/\ \A n \in ProcessedItems : issues[n].state = "open"
          /\ pc = "sweep" =>
                \A k \in 1..Len(openIssues) :
                    openIssues[k].number \in ProcessedItems =>
                        /\ hasAnyOccurrence(openIssues[k].body, currentVulnerabilities)
                        /\ SweepDecision(openIssues[k], currentVulnerabilities) = "keep")
    /\ [][pc = "sweep" => \A n \in ProcessedItems : issues'[n] = issues[n]]_vars

\* Some open issue carrying the sentinel label has a body that contains both
\* the quoted rule id and the quoted file path of g.
SomeOpenLabelledMatch(iss, g) ==
    \E n \in 1..Len(iss) :
        /\ iss[n].state = "open"
        /\ "codeql-finding" \in iss[n].labels
        /\ IssueMatches(iss[n].body, g)

\* C27: whenever the listing call succeeds, findExistingIssue returns an issue
\* if and only if some open issue with the sentinel label matches the group,
\* however many open labelled issues the tracker holds.
LookupFindsAnyMatch ==
    (pc = "looked" /\ hist.clean) =>
        (hist.items[1] # 0 <=> SomeOpenLabelledMatch(issues, groups[1]))

\* The keys the sweep tests for an issue body: one per extracted line, built
\* from the extracted rule id and file path.
KeysTested(body) ==
    {vulnKey(CellMatch(body, "rule"), CellMatch(body, "file"), line) :
        line \in issueLinesOf(body)}

\* createIssueBody returned the body as built, without the truncation note.
Untruncated(body) == \A i \in 1..Len(body) : body[i].k # "note"

\* C28: from a body createIssueBody rendered for a group without truncating
\* it, the sweep extracts the group's rule id, the group's file path and
\* exactly the start lines of the group's occurrences, so that the keys it
\* tests are the keys processFindings records for the group.
MarkersRoundTrip ==
    (pc = "rendered" /\ Untruncated(issues[1].body)) =>
        LET body == issues[1].body
            g == groups[1]
        IN  /\ CellMatch(body, "rule") = g.ruleId
            /\ CellMatch(body, "file") = g.filePath
            /\ issueLinesOf(body) =
                  {g.occurrences[i].startLine : i \in 1..Len(g.occurrences)}
            /\ KeysTested(body) = GroupKeys(g)

\* The bodies createIssueBody can render for g: without guidance, or with one
\* fetched document.
RenderedBodies(g) ==
    {createIssueBody(g, <<>>)} \cup {createIssueBody(g, <<c>>) : c \in Contents}

OpenMatches(iss, g) ==
    {n \in 1..Len(iss) : /\ iss[n].state = "open"
                         /\ "codeql-finding" \in iss[n].labels
                         /\ IssueMatches(iss[n].body, g)}

\* Both runs looked their group up before either wrote, and both lookups
\* returned null.
BothLookedUpFirst ==
    /\ Len(runners.events) >= 2
    /\ runners.events[1].step = "lookup"
    /\ runners.events[2].step = "lookup"
    /\ runners.existing = <<0, 0>>

\* C30: when two concurrent runs both look a group up before either writes
\* and both find nothing, no later step prevents the second create: once both
\* writes succeeded both runs created an issue, and the tracker holds two
\* open issues for the same rule id and file path.
ConcurrentRunsDuplicate ==
    (/\ pc = "racing"
     /\ runners.pc = <<"done", "done">>
     /\ BothLookedUpFirst
     /\ hist.clean) =>
        /\ runners.action = <<"created", "created">>
        /\ Cardinality(OpenMatches(issues, groups[1])) >= 2

\* Two runs over an empty tracker, both lookups before both creates: two open
\* issues for the one group.
TwoOpenItemsForOneGroup ==
    /\ pc = "racing"
    /\ hist.startIssues = <<>>
    /\ BothLookedUpFirst
    /\ runners.pc = <<"done", "done">>
    /\ runners.action = <<"created", "created">>
    /\ Len(issues) = 2
    /\ OpenMatches(issues, groups[1]) = {1, 2}
    /\ issues[1].title = issues[2].title

\* How many audit comments of an update the issues carry.
RECURSIVE AuditComments(_)
AuditComments(iss) ==
    IF iss = <<>> THEN 0
    ELSE Cardinality({k \in 1..Len(iss[Len(iss)].comments) :
                         iss[Len(iss)].comments[k] = "updated"})
         + AuditComments(SubSeq(iss, 1, Len(iss) - 1))

\* The sweep starts at most once in a run.
SweepStartsOnce ==
    [][(pc = "groups" /\ hist'.sweepRan /\ run' = run) => ~hist.sweepRan]_vars

\* From the sweep's first tracker call to the next run no issue is created,
\* no body or title is written and no audit comment of an update is added.
NoWriteAfterSweepBegan ==
    [][(hist.sweepRan /\ hist'.sweepRan) =>
          /\ Len(issues') = Len(issues)
          /\ \A n \in 1..Len(issues) : /\ issues'[n].body = issues[n].body
                                       /\ issues'[n].title = issues[n].title
          /\ AuditComments(issues') = AuditComments(issues)]_vars

\* C31 as worded: in a run whose sweep executed, the sweep started once, no
\* create, update or audit comment followed its first tracker call, and at
\* the end of the run the loop body has run for every issue the listing
\* returned.
SweepOnceExaminesAll ==
    /\ SweepStartsOnce
    /\ NoWriteAfterSweepBegan
    /\ []((pc = "idle" /\ hist.sweepRan) => hist.examined = hist.listed)

\* C31: as above, and the loop body has run for every issue the listing
\* returned when no tracker call of the sweep failed; when one failed, the
\* loop stopped at the issue it was closing and the issues examined are the
\* ones listed up to and including that one.
SweepOnceExaminesAllUnlessThrown ==
    /\ SweepStartsOnce
    /\ NoWriteAfterSweepBegan
    /\ []((pc = "idle" /\ hist.sweepRan) =>
            /\ ~hist.sweepThrew => hist.examined = hist.listed
            /\ Len(hist.examined) <= Len(hist.listed)
            /\ hist.examined = SubSeq(hist.listed, 1, Len(hist.examined)))

\* A finished sweep that examined two issues, one of them neither created
\* nor updated in this run, after the run had updated the other.
SweepExaminedUntouchedItem ==
    /\ pc = "idle"
    /\ hist.sweepRan /\ ~hist.sweepThrew
    /\ Len(hist.examined) >= 2
    /\ hist.examined = hist.listed
    /\ \E i \in DOMAIN hist.disposition : hist.disposition[i] = "updated"
    /\ \E k \in 1..Len(hist.examined) : hist.examined[k] \notin ProcessedItems

\* The sweep finds no rule cell, no file cell or no line number in the body.
Unparsable(body) ==
    \/ CellMatch(body, "rule") = <<>>
    \/ CellMatch(body, "file") = <<>>
    \/ issueLinesOf(body) = {}

\* C32: when the sweep comes to a listed issue in whose body it finds no rule
\* cell, no file cell or no line number, it issues no tracker call for it:
\* the tracker is unchanged (state, comments and labels of the issue
\* included) and the loop goes on with the next listed issue.
UnparsableItemSkipped ==
    [][(pc = "sweep" /\ si <= Len(openIssues) /\ Unparsable(openIssues[si].body)) =>
          /\ issues' = issues
          /\ si' = si + 1
          /\ pc' = "sweep"
          /\ closedCount' = closedCount
          /\ failures' = failures]_vars

\* A finished sweep that skipped an issue for a missing marker, left it as it
\* was when the run started, and closed an issue listed after it.
SkippedThenClosedNext ==
    /\ pc = "idle"
    /\ hist.sweepRan /\ ~hist.sweepThrew
    /\ \E k, j \in 1..Len(hist.examined) :
          /\ k < j
          /\ hist.examined[k] \in hist.unparsed
          /\ "false-positive" \notin issues[hist.examined[k]].labels
          /\ issues[hist.examined[k]] = hist.startIssues[hist.examined[k]]
          /\ issues[hist.examined[k]].state = "open"
          /\ hist.examined[j] \in hist.sweptClosed

\* fs and gs hold the same findings and differ at most in the order of the
\* findings inside a (ruleId, filePath) group: at every position the two
\* findings are of the same rule and file.
SameUpToOrderInGroups(fs, gs) ==
    /\ Len(fs) = Len(gs)
    /\ \A i \in 1..Len(fs) : /\ fs[i].ruleId = gs[i].ruleId
                             /\ fs[i].filePath = gs[i].filePath
    /\ \A f \in Range(fs) \cup Range(gs) :
          Cardinality({i \in 1..Len(fs) : fs[i] = f})
            = Cardinality({i \in 1..Len(gs) : gs[i] = f})

\* The reports that differ from fs at most in the order inside the groups.
Reorderings(fs) ==
    {gs \in [1..Len(fs) -> Range(fs)] : SameUpToOrderInGroups(fs, gs)}

\* C33: the groups built from a report and from any report that differs from
\* it only in the order of the findings inside a group have, group by
\* group, the same severity and the same decision of the filter stage.
SeverityIndependentOfOrder ==
    pc = "grouped" =>
        \A gs \in Reorderings(findings) :
            LET other == groupFindingsByRuleAndFile(gs)
            IN  /\ Len(other) = Len(groups)
                /\ \A i \in 1..Len(groups) :
                      /\ other[i].key = groups[i].key
                      /\ other[i].severity = groups[i].severity
                      /\ FilterReason(other[i], cfg) = FilterReason(groups[i], cfg)

\* The results of the report in report order: runs in order, results in
\* order within a run.
RECURSIVE AllResults(_)
AllResults(sarif) ==
    IF sarif = <<>> THEN <<>> ELSE Head(sarif) \o AllResults(Tail(sarif))

\* The findings are, in order, the findings of the given results.
FindingsAreOf(fs, rs) ==
    /\ Len(fs) = Len(rs)
    /\ \A k \in 1..Len(rs) : <<fs[k]>> = parseResult(rs[k])

\* C34 as worded: the parser returns one finding for every result that has a
\* primary location, in report order, and none for the others.
OneFindingPerLocatedResult ==
    pc = "parsed" =>
        FindingsAreOf(findings,
                      SelectSeq(AllResults(hist.sarif), LAMBDA r : r.located))

\* C34: the parser returns one finding for every result that has a primary
\* location and whose fields can be read (its snippet, if any, is a string),
\* in report order; the other results are skipped and leave the findings of
\* the results around them as they are.
OneFindingPerReadableLocatedResult ==
    pc = "parsed" =>
        FindingsAreOf(findings,
                      SelectSeq(AllResults(hist.sarif),
                                LAMBDA r : r.located /\ r.snippetIsText))

\* A report of two runs parsed into two findings, the first run holding a
\* result without location before the one that has one.
SkippedResultBetweenFindings ==
    /\ pc = "parsed"
    /\ Len(hist.sarif) = 2
    /\ Len(hist.sarif[1]) = 2
    /\ ~hist.sarif[1][1].located
    /\ hist.sarif[1][2].located /\ hist.sarif[1][2].snippetIsText
    /\ Len(findings) = 2
    /\ findings[1].startLine # findings[2].startLine

\* C35: every finding of the parser has a start line of at least 1, an end
\* line not before its start line and a start column of at least 1.
FindingRegionWellFormed ==
    pc = "parsed" =>
        \A k \in 1..Len(findings) :
            /\ findings[k].startLine >= 1
            /\ findings[k].endLine >= findings[k].startLine
            /\ findings[k].startColumn >= 1

\* C36: a run whose lookup listing failed for the group does not create an
\* issue for that group.
NoCreateAfterFailedLookup ==
    \A k \in 1..Len(runners.events) :
        (runners.events[k].step = "lookup" /\ runners.events[k].failed) =>
            runners.action[runners.events[k].run] # "created"

\* C37: at the end of a run the summary's created, updated and skipped
\* counts add up to the number of groups built from the report.
SummaryCountsAddUp ==
    RunOver => results.created + results.updated + results.skipped = Len(groups)

\* C38: at the end of a run the summary's closed count is the number of
\* issues whose state the sweep of that run changed to closed, also when the
\* sweep threw part-way.
ClosedCountIsIssuesClosed ==
    RunOver => results.closed = Cardinality(hist.sweptClosed)

\* C39: every step of a run changes only issues that are open and carry the
\* sentinel label before the step, so that an issue without the label is
\* never modified and a closed issue is never reopened or edited; and every
\* issue a step creates or changes carries the sentinel label afterwards.
OnlyOpenLabelledItemsMutated ==
    [][/\ Len(issues') >= Len(issues)
       /\ \A n \in 1..Len(issues) :
             issues'[n] # issues[n] =>
                 /\ issues[n].state = "open"
                 /\ "codeql-finding" \in issues[n].labels
                 /\ "codeql-finding" \in issues'[n].labels
       /\ \A n \in (Len(issues) + 1)..Len(issues') :
             /\ issues'[n].state = "open"
             /\ "codeql-finding" \in issues'[n].labels]_vars

\* A finished run over a tracker that held a closed issue for the group and
\* an open issue for it without the label: both are as they were, and the
\* group got a new issue.
ClosedAndUnlabelledLeftAlone ==
    /\ RunOver
    /\ hist.sweepRan /\ ~hist.sweepThrew
    /\ Len(hist.startIssues) = 2
    /\ \E n, m \in 1..2 :
          /\ hist.startIssues[n].state = "closed"
          /\ IssueMatches(hist.startIssues[n].body, groups[1])
          /\ "codeql-finding" \notin hist.startIssues[m].labels
          /\ issues[n] = hist.startIssues[n]
          /\ issues[m] = hist.startIssues[m]
    /\ hist.disposition[1] = "created"
    /\ Len(issues) = 3
    /\ "codeql-finding" \in issues[3].labels

====
